---- MODULE Spec2Model ----
(***************************************************************************)
(* A model of gsync: the sync engine (gsync/sync.py), the two storage      *)
(* backends (gsync/fs/localfs.py, gsync/fs/gdfs.py) and the path-tree      *)
(* index over Google Drive's flat listing (gsync/gdrive/gdrive.py).        *)
(*                                                                         *)
(* Strings are sequences of one-character strings, so that split, join,    *)
(* dirname, commonprefix and replace are computed as Python computes them. *)
(* Python values keep their type where the code compares them: a size read *)
(* from the Drive listing is a str, a size read from os.stat is an int.    *)
(***************************************************************************)
EXTENDS Integers, Sequences, FiniteSets, TLC

VARIABLES
    drive,        \* the GDrive singleton: initialized, tree_root, path_map, nodes (its dicts)
    remote,       \* the Drive service: the objects it stores, in listing order
    disk,         \* the local filesystem: files and directories by normalised path
    tz,           \* time.timezone of the host, in clock ticks
    source,       \* the source backend: kind and root
    destination,  \* the destination backend: kind and root
    options,      \* recursive, checksum, dryrun, maxsize
    pc,           \* where the process is
    walk,         \* the state of the generator source.files(...) of the running sync
    report,       \* what the run printed for each entry it processed, in order
    last,         \* the last operation called: its arguments, result and requests
    first,        \* the disk and the service as they were when the current run began
    clock,        \* the host's clock: later than every modified time stored so far
    history,      \* how each finished run of the program ended, and what it reported
    tokenmanager, \* the TokenManager object: _valid_till and _access_token_cached
    issued        \* the access tokens the authorization service has issued, in order

vars == <<drive, remote, disk, tz, source, destination, options, pc, walk, report, last, first, clock, history,
          tokenmanager, issued>>

(***************************************************************************)
(* Bounds of the model.                                                    *)
(***************************************************************************)
MaxListing == 3
MaxObjs == 4
MaxDepth == 3
MaxTime == 2
MaxRuns == 2
MaxZone == 1
MaxElapsed == 6
MaxTokens == 3

(***************************************************************************)
(* Strings.                                                                *)
(***************************************************************************)
SEP == "/"

None == <<>>

EmptyMap == [k \in {} |-> None]

Put(m, k, v) == (k :> v) @@ m

Get(m, k) == IF k \in DOMAIN m THEN m[k] ELSE None

Range(f) == {f[k] : k \in DOMAIN f}

Max(S) == CHOOSE x \in S : \A y \in S : y <= x

startswith(s, p) == Len(p) <= Len(s) /\ SubSeq(s, 1, Len(p)) = p

split(s) ==
    LET RECURSIVE go(_, _, _)
        go(i, cur, acc) ==
            IF i > Len(s) THEN Append(acc, cur)
            ELSE IF s[i] = SEP THEN go(i + 1, <<>>, Append(acc, cur))
            ELSE go(i + 1, Append(cur, s[i]), acc)
    IN go(1, <<>>, <<>>)

join(segs) ==
    LET RECURSIVE go(_, _)
        go(i, acc) ==
            IF i > Len(segs) THEN acc
            ELSE go(i + 1, IF i = 1 THEN segs[i] ELSE acc \o <<SEP>> \o segs[i])
    IN go(1, <<>>)

rfind(s) ==
    LET I == {i \in 1..Len(s) : s[i] = SEP} IN IF I = {} THEN 0 ELSE Max(I)

rstrip(s) ==
    LET K == {k \in 0..Len(s) : \A i \in (k + 1)..Len(s) : s[i] = SEP}
        k == CHOOSE k \in K : \A j \in K : k <= j
    IN SubSeq(s, 1, k)

os_path_split(p) ==
    LET i == rfind(p)
        head == SubSeq(p, 1, i)
        tail == SubSeq(p, i + 1, Len(p))
    IN << IF head # <<>> /\ rstrip(head) # <<>> THEN rstrip(head) ELSE head, tail >>

dirname(p) == os_path_split(p)[1]

basename(p) == os_path_split(p)[2]

os_path_join(a, b) ==
    IF startswith(b, <<SEP>>) THEN b
    ELSE IF a = <<>> \/ a[Len(a)] = SEP THEN a \o b
    ELSE a \o <<SEP>> \o b

commonprefix(a, b) ==
    LET K == {k \in 0..Len(a) : k <= Len(b) /\ \A i \in 1..k : a[i] = b[i]}
    IN SubSeq(a, 1, Max(K))

replace(s, old, new) ==
    LET RECURSIVE go(_, _)
        go(i, acc) ==
            IF old = <<>> THEN
                IF i > Len(s) THEN acc \o new
                ELSE go(i + 1, acc \o new \o <<s[i]>>)
            ELSE IF i > Len(s) THEN acc
            ELSE IF i + Len(old) - 1 <= Len(s) /\ SubSeq(s, i, i + Len(old) - 1) = old
                 THEN go(i + Len(old), acc \o new)
            ELSE go(i + 1, Append(acc, s[i]))
    IN go(1, <<>>)

(***************************************************************************)
(* Python values whose type the code's comparisons depend on.              *)
(***************************************************************************)
PyInt(n) == <<"int", n>>

PyStr(n) == <<"str", n>>

\* hashlib.md5 / Drive's md5Checksum: a digest of the content, taken to be
\* free of collisions.
md5(data) == <<"md5">> \o data

(***************************************************************************)
(* The Drive service: the objects it stores. The object at position n has  *)
(* the id IdOf(n); a listing returns the objects in this order.            *)
(***************************************************************************)
Digits == <<"1", "2", "3", "4", "5", "6", "7", "8", "9", "A", "B", "C", "D", "E", "F">>

IdOf(n) == <<Digits[n]>>

root_id == <<"0">>

root_name == <<"M", "y", " ", "D", "r", "i", "v", "e">>

path_prefix == <<"g", "d", ":">>

gd_root == path_prefix \o <<SEP>>

\* The metadata the service returns for one object of a listing: a folder has
\* neither size nor md5Checksum, and a size is a string.
FileMetaData(objs, n) ==
    LET o == objs[n] IN
    [ id |-> IdOf(n), name |-> o.name, parents |-> <<o.parent>>, folder |-> o.folder,
      keys |-> {"name", "id", "mimeType", "parents", "modifiedTime"}
                 \cup (IF o.folder THEN {} ELSE {"size", "md5Checksum"}),
      size |-> IF o.folder THEN None ELSE PyStr(Len(o.data)),
      modifiedTime |-> o.modifiedTime,
      md5Checksum |-> IF o.folder THEN None ELSE md5(o.data),
      path |-> None, subfolders |-> <<>>, files |-> <<>> ]

files(w) ==
    IF "files" \in w.faults THEN <<>>
    ELSE [n \in 1..Len(w.remote) |-> FileMetaData(w.remote, n)]

file_info(w, id) ==
    [ id |-> root_id, name |-> root_name, parents |-> <<>>, folder |-> TRUE,
      keys |-> {"name", "id"}, size |-> None, modifiedTime |-> 0, md5Checksum |-> None,
      path |-> None, subfolders |-> <<>>, files |-> <<>> ]

(***************************************************************************)
(* GDrive: the index. drive.nodes holds the dicts the tree and the lookup  *)
(* table share, by object id; subfolders, files and path_map refer to them *)
(* by id, so a dict reached through one structure is the dict reached      *)
(* through the other.                                                      *)
(***************************************************************************)
GDrive ==
    [initialized |-> FALSE, tree_root |-> None, path_map |-> EmptyMap, nodes |-> EmptyMap]

Raise(w, e) == [w |-> w, exc |-> e, val |-> None]

Return(w, v) == [w |-> w, exc |-> "none", val |-> v]

Request(w, what) == [w EXCEPT !.log = Append(@, what)]

RECURSIVE recursively_fill_nodes(_, _, _, _)
recursively_fill_nodes(st, listing, node, parentpath) ==
    LET currpath == IF parentpath # <<>> THEN parentpath \o node.name \o <<SEP>> ELSE gd_root
        entries == SelectSeq(listing, LAMBDA f : f.parents = <<node.id>>)
        RECURSIVE each(_, _, _, _)
        each(i, s, subs, fls) ==
            IF i > Len(entries)
            THEN [s EXCEPT !.nodes = Put(@, node.id,
                      [node EXCEPT !.path = currpath, !.files = fls, !.subfolders = subs,
                                   !.keys = @ \cup {"path", "files", "subfolders"}])]
            ELSE LET entry == entries[i] IN
                 IF entry.folder
                 THEN each(i + 1, recursively_fill_nodes(s, listing, entry, currpath),
                           Append(subs, entry.id), fls)
                 ELSE LET path == currpath \o entry.name IN
                      each(i + 1,
                           [nodes |-> Put(s.nodes, entry.id,
                                          [entry EXCEPT !.path = path, !.keys = @ \cup {"path"}]),
                            path_map |-> Put(s.path_map, path, entry.id)],
                           subs, Append(fls, entry.id))
    IN each(1, [st EXCEPT !.path_map = Put(@, currpath, node.id)], <<>>, <<>>)

construct_tree(w) ==
    LET w1 == Request(w, "files")
        listing == files(w1)
        w2 == Request(w1, "file_info")
        root_info == file_info(w2, <<"r", "o", "o", "t">>)
        st == recursively_fill_nodes(
                  [nodes |-> EmptyMap, path_map |-> Put(EmptyMap, gd_root, root_info.id)],
                  listing, root_info, <<>>)
    IN [w2 EXCEPT !.drive = [initialized |-> TRUE, tree_root |-> root_info.id,
                             path_map |-> st.path_map, nodes |-> st.nodes]]

\* for x in ids: if x["name"] == name: ...; break
first_named(nodes, ids, name) ==
    LET I == {i \in 1..Len(ids) : nodes[ids[i]].name = name}
    IN IF I = {} THEN None ELSE ids[CHOOSE i \in I : \A j \in I : i <= j]

path_exists_skipping(d, gdpath) ==
    LET parts == split(gdpath)
        prefix == parts[1]
        dirs == SubSeq(parts, 2, Len(parts) - 1)
        filename == parts[Len(parts)]
        NotFound(node, mismatch) ==
            [exc |-> "none", found |-> FALSE, node |-> None,
             last_matched_id |-> d.nodes[node].id, last_matched_name |-> d.nodes[node].name,
             mismatch |-> mismatch]
        Found(node) ==
            [exc |-> "none", found |-> TRUE, node |-> node,
             last_matched_id |-> None, last_matched_name |-> None, mismatch |-> None]
        Error(e) ==
            [exc |-> e, found |-> FALSE, node |-> None,
             last_matched_id |-> None, last_matched_name |-> None, mismatch |-> None]
        RECURSIVE descend(_, _)
        descend(last_matched_node, i) ==
            IF i > Len(dirs)
            THEN IF filename # <<>>
                 THEN LET file == first_named(d.nodes, d.nodes[last_matched_node].files, filename)
                      IN IF file # None THEN Found(file)
                         ELSE NotFound(last_matched_node, filename)
                 ELSE Found(last_matched_node)
            ELSE LET subfolder == first_named(d.nodes, d.nodes[last_matched_node].subfolders, dirs[i])
                 IN IF subfolder # None THEN descend(subfolder, i + 1)
                    ELSE NotFound(last_matched_node, join(SubSeq(parts, i + 2, Len(parts))))
    IN IF ~d.initialized THEN Error("AssertionError")
       ELSE IF Len(parts) < 2 THEN Error("ValueError")
       ELSE IF prefix # path_prefix THEN Error("AssertionError")
       ELSE descend(d.tree_root, 1)

path_exists(d, gdpath) ==
    LET parts == split(gdpath)
        prefix == parts[1]
        dirs == SubSeq(parts, 2, Len(parts) - 1)
        filename == parts[Len(parts)]
        NotFound(node, mismatch) ==
            [exc |-> "none", found |-> FALSE, node |-> None,
             last_matched_id |-> d.nodes[node].id, last_matched_name |-> d.nodes[node].name,
             mismatch |-> mismatch]
        Found(node) ==
            [exc |-> "none", found |-> TRUE, node |-> node,
             last_matched_id |-> None, last_matched_name |-> None, mismatch |-> None]
        Error(e) ==
            [exc |-> e, found |-> FALSE, node |-> None,
             last_matched_id |-> None, last_matched_name |-> None, mismatch |-> None]
        RECURSIVE descend(_, _)
        descend(last_matched_node, i) ==
            IF i > Len(dirs)
            THEN IF filename # <<>>
                 THEN LET file == first_named(d.nodes, d.nodes[last_matched_node].files, filename)
                      IN IF file # None THEN Found(file)
                         ELSE NotFound(last_matched_node, filename)
                 ELSE Found(last_matched_node)
            ELSE LET subfolder == first_named(d.nodes, d.nodes[last_matched_node].subfolders, dirs[i])
                 IN IF subfolder # None THEN descend(subfolder, i + 1)
                    ELSE NotFound(last_matched_node, join(SubSeq(parts, i + 1, Len(parts))))
    IN IF ~d.initialized THEN Error("AssertionError")
       ELSE IF Len(parts) < 2 THEN Error("ValueError")
       ELSE IF prefix # path_prefix THEN Error("AssertionError")
       ELSE descend(d.tree_root, 1)

\* POST /files with the folder's metadata: the service stores a new folder and
\* answers with its record, to which the code adds empty subfolders and files;
\* on another answer than 200 the code logs it and returns None.
create_folder(w, name, parentid) ==
    LET w1 == Request(w, "create_folder")
        n == Len(w1.remote) + 1
        folder == [ id |-> IdOf(n), name |-> name, parents |-> <<>>, folder |-> TRUE,
                    keys |-> {"kind", "id", "name", "mimeType", "subfolders", "files"},
                    size |-> None, modifiedTime |-> 0, md5Checksum |-> None,
                    path |-> None, subfolders |-> <<>>, files |-> <<>> ]
    IN IF "create_folder" \in w.faults THEN Return(w1, None)
       ELSE Return([w1 EXCEPT
                  !.remote = Append(@, [name |-> name, parent |-> parentid, folder |-> TRUE,
                                        data |-> <<>>, modifiedTime |-> w.now]),
                  !.drive.nodes = Put(@, folder.id, folder)],
              folder.id)

append_subfolder(c, last_node) ==
    [c EXCEPT !.w.drive.nodes[last_node].subfolders = Append(@, c.val)]

register(c, path) == [c EXCEPT !.w.drive.path_map = Put(@, path, c.val)]

\* The loop over the parent folders, then the creation of the folder itself.
RECURSIVE mkdir_from(_, _, _, _, _, _, _)
mkdir_from(w, path, pdirs, foldername, last_node, i, mkparents) ==
    IF i > Len(pdirs)
    THEN register(append_subfolder(create_folder(w, foldername, w.drive.nodes[last_node].id),
                                   last_node),
                  path)
    ELSE IF first_named(w.drive.nodes, w.drive.nodes[last_node].subfolders, pdirs[i]) # None
    THEN mkdir_from(w, path, pdirs, foldername,
                    first_named(w.drive.nodes, w.drive.nodes[last_node].subfolders, pdirs[i]),
                    i + 1, mkparents)
    ELSE IF mkparents /\ create_folder(w, pdirs[i], w.drive.nodes[last_node].id).val # None
    THEN mkdir_from(append_subfolder(create_folder(w, pdirs[i], w.drive.nodes[last_node].id),
                                     last_node).w,
                    path, pdirs, foldername, IdOf(Len(w.remote) + 1), i + 1, mkparents)
    ELSE IF mkparents
    THEN Raise(create_folder(w, pdirs[i], w.drive.nodes[last_node].id).w, "FileNotFoundError")
    ELSE Raise(w, "FileNotFoundError")

mkdir_parts(w, path, parts, foldername, mkparents) ==
    IF parts[1] # path_prefix THEN Raise(w, "AssertionError")
    ELSE mkdir_from(w, path, SubSeq(parts, 2, Len(parts)), foldername,
                    w.drive.tree_root, 1, mkparents)

GDrive_mkdir_mkparents(w, path, mkparents) ==
    IF ~w.drive.initialized THEN Raise(w, "AssertionError")
    ELSE IF path = gd_root THEN Raise(w, "AssertionError")
    ELSE mkdir_parts(w, path, split(os_path_split(dirname(path))[1]),
                     os_path_split(dirname(path))[2], TRUE)

GDrive_mkdir(w, path, mkparents) ==
    IF ~w.drive.initialized THEN Raise(w, "AssertionError")
    ELSE IF path = gd_root THEN Raise(w, "AssertionError")
    ELSE mkdir_parts(w, path, split(os_path_split(dirname(path))[1]),
                     os_path_split(dirname(path))[2], mkparents)

\* The resumable upload: the service stores a new file under the parent and
\* answers with its record, which upload puts into the lookup table.
upload_file(w, parent, destpath, data) ==
    IF "upload_init" \in w.faults THEN Return(Request(w, "upload_init"), None)
    ELSE IF "upload_put" \in w.faults
    THEN Return(Request(Request(w, "upload_init"), "upload_put"), None)
    ELSE
    Return([w EXCEPT
               !.log = @ \o <<"upload_init", "upload_put">>,
               !.remote = Append(@, [name |-> basename(destpath), parent |-> parent,
                                     folder |-> FALSE, data |-> data,
                                     modifiedTime |-> w.now]),
               !.drive.nodes = Put(@, IdOf(Len(w.remote) + 1),
                   [ id |-> IdOf(Len(w.remote) + 1), name |-> basename(destpath),
                     parents |-> <<>>, folder |-> FALSE,
                     keys |-> {"kind", "id", "name", "mimeType"},
                     size |-> None, modifiedTime |-> 0, md5Checksum |-> None,
                     path |-> None, subfolders |-> <<>>, files |-> <<>> ]),
               !.drive.path_map = Put(@, destpath, IdOf(Len(w.remote) + 1))],
           IdOf(Len(w.remote) + 1))

upload_under(m, parent, destpath, data) ==
    IF m.exc # "none" THEN Raise(m.w, m.exc)
    ELSE IF parent = None THEN Raise(m.w, "FileNotFoundError")
    ELSE upload_file(m.w, m.w.drive.nodes[parent].id, destpath, data)

upload_into(m, dirpath, destpath, data) ==
    upload_under(m, Get(m.w.drive.path_map, dirpath), destpath, data)

upload_to(w, dirpath, destpath, data) ==
    upload_into(IF dirpath # gd_root /\ Get(w.drive.path_map, dirpath) = None
                THEN GDrive_mkdir(w, dirpath, TRUE)
                ELSE Return(w, None),
                dirpath, destpath, data)

upload(w, destpath, data) ==
    IF ~w.drive.initialized THEN Raise(w, "AssertionError")
    ELSE upload_to(w, dirname(destpath) \o <<SEP>>, destpath, data)

\* PATCH /files/{id}: the service answers 200 when id names an object it stores.
update_metadata(w, id, modifiedTime) ==
    LET w1 == Request(w, "update_metadata")
        N == {n \in 1..Len(w.remote) : IdOf(n) = id}
    IN IF N = {} THEN Return(w1, FALSE)
       ELSE Return([w1 EXCEPT !.remote[CHOOSE n \in N : TRUE].modifiedTime = modifiedTime], TRUE)

\* self.request(..., param={...}, data=source): requests.request takes no
\* keyword 'param', and the call raises before anything is sent.
update_content(w, id, data) == Raise(w, "TypeError")

getprop(d, path, prop) ==
    LET node == Get(d.path_map, path) IN
    IF ~d.initialized THEN [exc |-> "AssertionError", val |-> None]
    ELSE IF node = None THEN [exc |-> "FileNotFoundError", val |-> None]
    ELSE IF prop \notin d.nodes[node].keys THEN [exc |-> "KeyError", val |-> None]
    ELSE [exc |-> "none", val |-> d.nodes[node][prop]]

(***************************************************************************)
(* LocalFileSystem: the disk maps a normalised path to a directory or to a *)
(* file with its content and st_mtime.                                     *)
(***************************************************************************)
DirSize == 3

Result(e, v) == [exc |-> e, val |-> v]

normpath(p) == IF rstrip(p) = <<>> THEN p ELSE rstrip(p)

Dir(mtime) == [dir |-> TRUE, data |-> <<>>, mtime |-> mtime]

File(data, mtime) == [dir |-> FALSE, data |-> data, mtime |-> mtime]

os_path_exists(disk_, p) == normpath(p) \in DOMAIN disk_

os_path_isdir(disk_, p) == os_path_exists(disk_, p) /\ disk_[normpath(p)].dir

\* os.stat(p): FileNotFoundError when nothing is at p.
os_stat(disk_, p) ==
    IF ~os_path_exists(disk_, p) THEN Result("FileNotFoundError", None)
    ELSE Result("none", [st_size |-> IF disk_[normpath(p)].dir THEN DirSize
                                     ELSE Len(disk_[normpath(p)].data),
                         st_mtime |-> disk_[normpath(p)].mtime])

RECURSIVE SetToSeq(_)
SetToSeq(S) ==
    IF S = {} THEN <<>>
    ELSE LET x == CHOOSE x \in S : TRUE IN <<x>> \o SetToSeq(S \ {x})

Reverse(q) == [i \in 1..Len(q) |-> q[Len(q) + 1 - i]]

\* os.listdir(dirpath): the names in the directory, in an order the
\* filesystem chooses.
os_listdir(disk_, dirpath, order) ==
    IF ~os_path_exists(disk_, dirpath) THEN Result("FileNotFoundError", None)
    ELSE IF ~os_path_isdir(disk_, dirpath) THEN Result("NotADirectoryError", None)
    ELSE Result("none",
                (IF order = "reversed" THEN Reverse(SetToSeq({basename(k) :
                        k \in {k \in DOMAIN disk_ : k # normpath(dirpath)
                                                     /\ dirname(k) = normpath(dirpath)}}))
                 ELSE SetToSeq({basename(k) :
                        k \in {k \in DOMAIN disk_ : k # normpath(dirpath)
                                                     /\ dirname(k) = normpath(dirpath)}})))

LocalFileSystem_exists(w, path) == Result("none", os_path_exists(w.disk, path))

\* pathlib.Path(dirpath).mkdir(parents=mkparents, exist_ok=True)
LocalFileSystem_mkdir_leaf(m, dirpath) ==
    IF m.exc # "none" THEN m
    ELSE Return([m.w EXCEPT !.disk = Put(@, normpath(dirpath), Dir(m.w.now))], None)

RECURSIVE LocalFileSystem_mkdir(_, _, _)
LocalFileSystem_mkdir(w, dirpath, mkparents) ==
    IF os_path_exists(w.disk, dirpath)
    THEN IF os_path_isdir(w.disk, dirpath) THEN Return(w, None)
         ELSE Raise(w, "FileExistsError")
    ELSE IF dirname(normpath(dirpath)) = <<>>
            \/ os_path_isdir(w.disk, dirname(normpath(dirpath)))
    THEN Return([w EXCEPT !.disk = Put(@, normpath(dirpath), Dir(w.now))], None)
    ELSE IF os_path_exists(w.disk, dirname(normpath(dirpath)))
    THEN Raise(w, "NotADirectoryError")
    ELSE IF ~mkparents THEN Raise(w, "FileNotFoundError")
    ELSE LocalFileSystem_mkdir_leaf(
             LocalFileSystem_mkdir(w, dirname(normpath(dirpath)), TRUE), dirpath)

\* open(destination_path, "wb") and the writes: the file holds the data and
\* its st_mtime is the time of the write.
local_write(m, destination_path, data) ==
    IF m.exc # "none" THEN m
    ELSE IF os_path_isdir(m.w.disk, destination_path) THEN Raise(m.w, "IsADirectoryError")
    ELSE IF ~os_path_exists(m.w.disk, dirname(destination_path))
    THEN Raise(m.w, "FileNotFoundError")
    ELSE IF ~os_path_isdir(m.w.disk, dirname(destination_path))
    THEN Raise(m.w, "NotADirectoryError")
    ELSE Return([m.w EXCEPT !.disk = Put(@, normpath(destination_path), File(data, m.w.now))],
                None)

LocalFileSystem_copy_to(w, destination_path, data) ==
    local_write(IF ~os_path_exists(w.disk, dirname(destination_path))
                THEN LocalFileSystem_mkdir(w, dirname(destination_path), TRUE)
                ELSE Return(w, None),
                destination_path, data)

\* open(filepath, "rb"): the bytes the iteration will produce.
LocalFileSystem_ropen(w, filepath) ==
    IF ~os_path_exists(w.disk, filepath) THEN Raise(w, "FileNotFoundError")
    ELSE IF os_path_isdir(w.disk, filepath) THEN Raise(w, "IsADirectoryError")
    ELSE Return(w, w.disk[normpath(filepath)].data)

\* os.stat(filepath).st_mtime + time.timezone, as a UTC datetime
LocalFileSystem_last_modified_time(w, filepath) ==
    IF os_stat(w.disk, filepath).exc # "none" THEN os_stat(w.disk, filepath)
    ELSE Result("none", os_stat(w.disk, filepath).val.st_mtime + w.tz)

LocalFileSystem_md5hash(w, filepath) ==
    IF ~os_path_exists(w.disk, filepath) THEN Result("FileNotFoundError", None)
    ELSE IF os_path_isdir(w.disk, filepath) THEN Result("IsADirectoryError", None)
    ELSE Result("none", md5(w.disk[normpath(filepath)].data))

LocalFileSystem_size(w, filepath) ==
    IF os_stat(w.disk, filepath).exc # "none" THEN os_stat(w.disk, filepath)
    ELSE Result("none", PyInt(os_stat(w.disk, filepath).val.st_size))

\* mtime = mtime.timestamp(); mtime -= time.timezone; os.utime(filepath, (mtime, mtime))
\* The argument mtime is None or <<t>>, a datetime.
LocalFileSystem_touch(w, filepath, mtime) ==
    IF ~os_path_exists(w.disk, filepath) THEN Raise(w, "FileNotFoundError")
    ELSE Return([w EXCEPT !.disk[normpath(filepath)].mtime =
                              (IF mtime = None THEN w.now ELSE mtime[1]) - w.tz],
                None)

(***************************************************************************)
(* GDFileSystem: the FileSystem operations over the drive singleton.       *)
(***************************************************************************)
\* GET /files/{id}?alt=media: the content the service stores for the object.
open_read_only_get(w, id) ==
    IF \E n \in 1..Len(w.remote) : IdOf(n) = id /\ ~w.remote[n].folder
    THEN Return(w, w.remote[CHOOSE n \in 1..Len(w.remote) : IdOf(n) = id].data)
    ELSE Raise(w, "IOError")

open_read_only(w, path) ==
    IF ~w.drive.initialized THEN Raise(w, "AssertionError")
    ELSE IF Get(w.drive.path_map, path) = None THEN Raise(w, "FileNotFoundError")
    ELSE open_read_only_get(Request(w, "open_read_only"),
                            w.drive.nodes[Get(w.drive.path_map, path)].id)

GDFileSystem_exists(w, path) ==
    Result(path_exists(w.drive, path).exc, path_exists(w.drive, path).found)

GDFileSystem_mkdir(w, dirpath, mkparents) == GDrive_mkdir(w, dirpath, mkparents)

\* copy_to returns nothing, whatever update_content or upload returned.
GDFileSystem_copy_to_end(m) == IF m.exc # "none" THEN m ELSE Return(m.w, None)

GDFileSystem_copy_to(w, destination_path, data) ==
    IF path_exists(w.drive, destination_path).exc # "none"
    THEN Raise(w, path_exists(w.drive, destination_path).exc)
    ELSE IF path_exists(w.drive, destination_path).found
    THEN GDFileSystem_copy_to_end(update_content(w, destination_path, data))
    ELSE GDFileSystem_copy_to_end(upload(w, destination_path, data))

GDFileSystem_ropen(w, filepath) == open_read_only(w, filepath)

\* datetime.fromisoformat(drive.getprop(filepath, "modifiedTime"))
GDFileSystem_last_modified_time(w, filepath) == getprop(w.drive, filepath, "modifiedTime")

GDFileSystem_md5hash(w, filepath) == getprop(w.drive, filepath, "md5Checksum")

GDFileSystem_size(w, filepath) == getprop(w.drive, filepath, "size")

\* The file's path goes where update_metadata expects the file's id, and
\* what update_metadata answers is dropped.
GDFileSystem_touch(w, filepath, mtime) ==
    Return(update_metadata(w, filepath, IF mtime = None THEN w.now ELSE mtime[1]).w, None)

(***************************************************************************)
(* A backend is a kind ("local" or "gd") and a root; sync picks the class  *)
(* of each side from the "gd:" prefix of its directory argument.           *)
(***************************************************************************)
FileSystem(dir) == [kind |-> IF startswith(dir, path_prefix) THEN "gd" ELSE "local", root |-> dir]

exists(w, fs, path) ==
    IF fs.kind = "gd" THEN GDFileSystem_exists(w, path) ELSE LocalFileSystem_exists(w, path)

copy_to(w, fs, destination_path, data) ==
    IF fs.kind = "gd" THEN GDFileSystem_copy_to(w, destination_path, data)
    ELSE LocalFileSystem_copy_to(w, destination_path, data)

ropen(w, fs, filepath) ==
    IF fs.kind = "gd" THEN GDFileSystem_ropen(w, filepath) ELSE LocalFileSystem_ropen(w, filepath)

last_modified_time(w, fs, filepath) ==
    IF fs.kind = "gd" THEN GDFileSystem_last_modified_time(w, filepath)
    ELSE LocalFileSystem_last_modified_time(w, filepath)

md5hash(w, fs, filepath) ==
    IF fs.kind = "gd" THEN GDFileSystem_md5hash(w, filepath)
    ELSE LocalFileSystem_md5hash(w, filepath)

size(w, fs, filepath) ==
    IF fs.kind = "gd" THEN GDFileSystem_size(w, filepath) ELSE LocalFileSystem_size(w, filepath)

touch(w, fs, filepath, mtime) ==
    IF fs.kind = "gd" THEN GDFileSystem_touch(w, filepath, mtime)
    ELSE LocalFileSystem_touch(w, filepath, mtime)

(***************************************************************************)
(* The generators behind source.files(root, recursive). g is the frame of  *)
(* the suspended generator; *_next runs it to its next yield, to its end   *)
(* (StopIteration) or to the exception it raises.                          *)
(***************************************************************************)
Generator(fs, order) ==
    [kind |-> fs.kind, root |-> fs.root, order |-> order, started |-> FALSE,
     yet_to_traverse |-> <<>>, dirpath |-> None, entries |-> <<>>, node |-> None, idx |-> 0]

Yield(g, v) == [g |-> g, exc |-> "none", val |-> v]

Stop(g, e) == [g |-> g, exc |-> e, val |-> None]

Front(q) == SubSeq(q, 1, Len(q) - 1)

Last(q) == q[Len(q)]

RECURSIVE LocalFileSystem_files_next(_, _, _)
LocalFileSystem_files_listed(w, g, listed, recursive) ==
    IF listed.exc # "none" THEN Stop(g, listed.exc)
    ELSE LocalFileSystem_files_next(w, [g EXCEPT !.entries = listed.val], recursive)

LocalFileSystem_files_entry(w, g, fullpath, recursive) ==
    IF os_path_isdir(w.disk, fullpath) /\ recursive
    THEN LocalFileSystem_files_next(
             w, [g EXCEPT !.yet_to_traverse = Append(@, fullpath)], recursive)
    ELSE Yield(g, fullpath)

LocalFileSystem_files_next(w, g, recursive) ==
    IF ~g.started
    THEN LocalFileSystem_files_next(
             w, [g EXCEPT !.started = TRUE, !.yet_to_traverse = <<g.root>>], recursive)
    ELSE IF g.entries # <<>>
    THEN LocalFileSystem_files_entry(w, [g EXCEPT !.entries = Tail(@)],
                                     os_path_join(g.dirpath, Head(g.entries)), recursive)
    ELSE IF g.yet_to_traverse = <<>> THEN Stop(g, "StopIteration")
    ELSE LocalFileSystem_files_listed(
             w, [g EXCEPT !.dirpath = Last(g.yet_to_traverse), !.yet_to_traverse = Front(@)],
             os_listdir(w.disk, Last(g.yet_to_traverse), g.order), recursive)

RECURSIVE walk_tree_next(_, _, _)
walk_tree_next(w, g, recursive) ==
    IF ~g.started
    THEN IF ~w.drive.initialized THEN Stop(g, "AssertionError")
         ELSE IF Get(w.drive.path_map, g.root) = None THEN Stop(g, "FileNotFoundError")
         ELSE walk_tree_next(w, [g EXCEPT !.started = TRUE,
                                          !.yet_to_traverse = <<Get(w.drive.path_map, g.root)>>],
                             recursive)
    ELSE IF g.node # None
    THEN IF g.idx <= Len(w.drive.nodes[g.node].files)
         THEN IF "path" \in w.drive.nodes[w.drive.nodes[g.node].files[g.idx]].keys
              THEN Yield([g EXCEPT !.idx = @ + 1],
                         w.drive.nodes[w.drive.nodes[g.node].files[g.idx]].path)
              ELSE Stop([g EXCEPT !.idx = @ + 1], "KeyError")
         ELSE walk_tree_next(
                  w, [g EXCEPT !.node = None,
                               !.yet_to_traverse =
                                   IF recursive THEN @ \o w.drive.nodes[g.node].subfolders ELSE @],
                  recursive)
    ELSE IF g.yet_to_traverse = <<>> THEN Stop(g, "StopIteration")
    ELSE walk_tree_next(w, [g EXCEPT !.node = Last(g.yet_to_traverse), !.idx = 1,
                                     !.yet_to_traverse = Front(@)],
                        recursive)

files_next(w, g, recursive) ==
    IF g.kind = "gd" THEN walk_tree_next(w, g, recursive)
    ELSE LocalFileSystem_files_next(w, g, recursive)

(***************************************************************************)
(* The sync engine: the body of the loop of __sync for one source entry.   *)
(* c holds the loop's variables: source, destination, options, srcfile and *)
(* destfile. w.calls lists the backend operations called, in order, and    *)
(* w.args what copy_to and touch were given. The outcome is the world      *)
(* after the body, the exception that left it (or "none") and the decision *)
(* it printed (None when it printed none).                                 *)
(***************************************************************************)
Called(w, side, op) == [w EXCEPT !.calls = Append(@, <<side, op>>)]

Given(w, op, path, arg) == [w EXCEPT !.args = Append(@, [op |-> op, path |-> path, arg |-> arg])]

Outcome(w, e, msg) == [w |-> w, exc |-> e, msg |-> msg]

\* if maxsize := options.get("maxsize")
truthy(maxsize) == maxsize # None /\ maxsize[2] # 0

copy_touched(t, msg) == Outcome(t.w, t.exc, msg)

copy_touch_now(w, lmt, msg, c) ==
    IF lmt.exc # "none" THEN Outcome(w, lmt.exc, msg)
    ELSE copy_touched(touch(Given(Called(w, "destination", "touch"),
                                  "touch", c.destfile, None),
                            c.destination, c.destfile, None),
                      msg)

copy_touch(w, lmt, msg, c) ==
    IF lmt.exc # "none" THEN Outcome(w, lmt.exc, msg)
    ELSE copy_touched(touch(Given(Called(w, "destination", "touch"),
                                  "touch", c.destfile, <<lmt.val>>),
                            c.destination, c.destfile, <<lmt.val>>),
                      msg)

copy_copied(m, msg, c) ==
    IF m.exc # "none" THEN Outcome(m.w, m.exc, msg)
    ELSE copy_touch(Called(m.w, "source", "last_modified_time"),
                    last_modified_time(m.w, c.source, c.srcfile), msg, c)

copy_opened(m, msg, c) ==
    IF m.exc # "none" THEN Outcome(m.w, m.exc, msg)
    ELSE copy_copied(copy_to(Given(Called(m.w, "destination", "copy_to"),
                                   "copy_to", c.destfile, m.val),
                             c.destination, c.destfile, m.val),
                     msg, c)

copy_always(w, msg, c) ==
    copy_opened(ropen(Called(w, "source", "ropen"), c.source, c.srcfile), msg, c)

copy(w, msg, c) ==
    IF ~c.options.dryrun
    THEN copy_opened(ropen(Called(w, "source", "ropen"), c.source, c.srcfile), msg, c)
    ELSE Outcome(w, "none", msg)

\* compare files by their sizes, the modified times being equal
sync_size_dest(w, size_src, size_dest, c) ==
    IF size_dest.exc # "none" THEN Outcome(w, size_dest.exc, None)
    ELSE IF size_src = size_dest.val THEN Outcome(w, "none", "UP-TO-DATE...SKIPPING")
    ELSE copy(w, "UPDATING...", c)

sync_size_src(w, size_src, c) ==
    IF size_src.exc # "none" THEN Outcome(w, size_src.exc, None)
    ELSE sync_size_dest(Called(w, "destination", "size"), size_src.val,
                        size(w, c.destination, c.destfile), c)

\* compare files by their modified time and file sizes
sync_lmd_dest(w, lmd_src, lmd_dest, c) ==
    IF lmd_dest.exc # "none" THEN Outcome(w, lmd_dest.exc, None)
    ELSE IF lmd_src > lmd_dest.val THEN copy(w, "UPDATING...", c)
    ELSE IF lmd_src < lmd_dest.val THEN Outcome(w, "none", "DEST NEWER...SKIPPING")
    ELSE sync_size_src(Called(w, "source", "size"), size(w, c.source, c.srcfile), c)

sync_lmd_src(w, lmd_src, c) ==
    IF lmd_src.exc # "none" THEN Outcome(w, lmd_src.exc, None)
    ELSE sync_lmd_dest(Called(w, "destination", "last_modified_time"), lmd_src.val,
                       last_modified_time(w, c.destination, c.destfile), c)

\* compare files by their md5 hashes
sync_cksum_differs(w, cksum_src, cksum_dest, c) ==
    IF cksum_dest.exc # "none" THEN Outcome(w, cksum_dest.exc, None)
    ELSE IF cksum_src # cksum_dest.val THEN Outcome(w, "none", "CHECKSUM MATCHED...SKIPPING")
    ELSE copy(w, "UPDATING...", c)

sync_cksum_dest(w, cksum_src, cksum_dest, c) ==
    IF cksum_dest.exc # "none" THEN Outcome(w, cksum_dest.exc, None)
    ELSE IF cksum_src = cksum_dest.val THEN Outcome(w, "none", "CHECKSUM MATCHED...SKIPPING")
    ELSE copy(w, "UPDATING...", c)

sync_cksum_src(w, cksum_src, c) ==
    IF cksum_src.exc # "none" THEN Outcome(w, cksum_src.exc, None)
    ELSE sync_cksum_dest(Called(w, "destination", "md5hash"), cksum_src.val,
                         md5hash(w, c.destination, c.destfile), c)

sync_compare(w, c) ==
    IF c.options.checksum
    THEN sync_cksum_src(Called(w, "source", "md5hash"), md5hash(w, c.source, c.srcfile), c)
    ELSE sync_lmd_src(Called(w, "source", "last_modified_time"),
                      last_modified_time(w, c.source, c.srcfile), c)

\* if not destination.exists(destfile): copy("COPYING...", ...) else: compare
sync_exists_compare(w, found, c) ==
    IF found.exc # "none" THEN Outcome(w, found.exc, None)
    ELSE sync_compare(w, c)

sync_exists(w, found, c) ==
    IF found.exc # "none" THEN Outcome(w, found.exc, None)
    ELSE IF ~found.val THEN copy(w, "COPYING...", c)
    ELSE sync_compare(w, c)

sync_exists_gate(w, c) ==
    sync_exists(Called(w, "destination", "exists"), exists(w, c.destination, c.destfile), c)

\* size_src > maxsize: a str and an int do not compare
sync_maxsize(w, size_src, c) ==
    IF size_src.exc # "none" THEN Outcome(w, size_src.exc, None)
    ELSE IF size_src.val[1] # c.options.maxsize[1] THEN Outcome(w, "TypeError", None)
    ELSE IF size_src.val[2] > c.options.maxsize[2]
    THEN Outcome(w, "none", "TOO BIG...SKIPPING")
    ELSE sync_exists_gate(w, c)

sync_size_gate(w, c) ==
    IF truthy(c.options.maxsize)
    THEN sync_maxsize(Called(w, "source", "size"), size(w, c.source, c.srcfile), c)
    ELSE sync_exists_gate(w, c)

\* prefix = os.path.commonprefix([source.root, srcfile])
\* destfile = srcfile.replace(prefix, destination.root)
sync_entry(w, src, dst, opts, srcfile) ==
    sync_size_gate(w, [source |-> src, destination |-> dst, options |-> opts,
                       srcfile |-> srcfile,
                       destfile |-> replace(srcfile, commonprefix(src.root, srcfile),
                                            dst.root)])

(***************************************************************************)
(* The index on its own: gsync.gdrive builds the tree when it is imported, *)
(* and its callers then create folders and upload files through it.        *)
(***************************************************************************)
FolderNames == {<<"a">>, <<"b">>}

FileNames == {<<"x">>}

Now == MaxTime + 1

\* The flat listings of at most MaxListing objects hanging from the account
\* root: every object has one parent, the root or a folder listed before it.
NewObjects(l) ==
    { [name |-> nk[1], parent |-> p, folder |-> nk[2], data |-> <<1>>, modifiedTime |-> 1] :
        nk \in (FolderNames \X {TRUE}) \cup (FileNames \X {FALSE}),
        p \in {root_id} \cup {IdOf(n) : n \in {m \in 1..Len(l) : l[m].folder}} }

RECURSIVE ListingsOfLen(_)
ListingsOfLen(k) ==
    IF k = 0 THEN {<<>>}
    ELSE UNION { {Append(l, o) : o \in NewObjects(l)} : l \in ListingsOfLen(k - 1) }

Listings == UNION {ListingsOfLen(k) : k \in 0..MaxListing}

RECURSIVE DirsOfDepth(_)
DirsOfDepth(k) ==
    IF k = 0 THEN {gd_root}
    ELSE {d \o n \o <<SEP>> : d \in DirsOfDepth(k - 1), n \in FolderNames}

DirPaths == UNION {DirsOfDepth(k) : k \in 1..MaxDepth}

FilePaths == {d \o n : d \in {gd_root} \cup DirPaths, n \in FileNames}

NoCall == [op |-> "none", path |-> None, mkparents |-> FALSE, exc |-> "none", log |-> <<>>]

World(now) ==
    [drive |-> drive, remote |-> remote, disk |-> disk, tz |-> tz, now |-> now,
     log |-> <<>>, calls |-> <<>>, args |-> <<>>, faults |-> {}]

Idle ==
    /\ disk = EmptyMap
    /\ tz = 0
    /\ source = None
    /\ destination = None
    /\ options = None
    /\ walk = None
    /\ report = <<>>
    /\ first = None
    /\ clock = Now
    /\ history = <<>>
    /\ tokenmanager = None
    /\ issued = <<>>

InitIndex ==
    /\ drive = GDrive
    /\ remote \in Listings
    /\ pc = "import"
    /\ last = NoCall
    /\ Idle

\* gsync/gdrive/__init__.py: drive = GDrive(...); drive.construct_tree()
\* faults are the kinds of request the service answers with an error status
\* meanwhile (none, where service failures are left out).
ImportWith(faults) ==
    /\ pc = "import"
    /\ \E w \in {construct_tree([World(clock) EXCEPT !.faults = faults])} :
       /\ drive' = w.drive
       /\ last' = [NoCall EXCEPT !.op = "construct_tree", !.log = w.log]
    /\ pc' = "ready"
    /\ UNCHANGED <<remote, disk, tz, source, destination, options, walk, report, first, clock, history,
            tokenmanager, issued>>

Import == ImportWith({})

CallMkdir(path, mkparents) ==
    /\ pc = "ready"
    /\ Len(remote) + Len(split(path)) - 2 <= MaxObjs
    /\ \E r \in {GDrive_mkdir(World(clock), path, mkparents)} :
       /\ drive' = r.w.drive
       /\ remote' = r.w.remote
       /\ last' = [op |-> "mkdir", path |-> path, mkparents |-> mkparents,
                   exc |-> r.exc, log |-> r.w.log]
    /\ UNCHANGED <<disk, tz, source, destination, options, pc, walk, report, first, clock, history,
            tokenmanager, issued>>

CallUpload(path) ==
    /\ pc = "ready"
    /\ Len(remote) + Len(split(path)) - 1 <= MaxObjs
    /\ \E r \in {upload(World(clock), path, <<1>>)} :
       /\ drive' = r.w.drive
       /\ remote' = r.w.remote
       /\ last' = [op |-> "upload", path |-> path, mkparents |-> FALSE,
                   exc |-> r.exc, log |-> r.w.log]
    /\ UNCHANGED <<disk, tz, source, destination, options, pc, walk, report, first, clock, history,
            tokenmanager, issued>>

NextIndex ==
    \/ Import
    \/ \E path \in DirPaths, mkparents \in BOOLEAN : CallMkdir(path, mkparents)
    \/ \E path \in FilePaths : CallUpload(path)

SpecIndex == InitIndex /\ [][NextIndex]_vars

(***************************************************************************)
(* Properties of the index.                                                *)
(***************************************************************************)
\* The nodes the tree holds: those reached from n through subfolders and files.
RECURSIVE Reachable(_, _)
Reachable(d, n) ==
    {n} \cup Range(d.nodes[n].files)
        \cup UNION {Reachable(d, c) : c \in Range(d.nodes[n].subfolders)}

\* The directories above a directory path: gd:/a/ and gd:/a/b/ for gd:/a/b/c/.
Ancestors(path) ==
    {join(SubSeq(split(path), 1, k)) \o <<SEP>> : k \in 2..(Len(split(path)) - 2)}

AncestorMissing(d, path) == \E a \in Ancestors(path) : ~path_exists(d, a).found

\* C8: whenever the index is built, the nodes reachable from the tree root
\* are exactly the values of the lookup table, and every key of the table is
\* the path under which the tree reaches that same node.
C8_TreeTableAgree ==
    drive.initialized =>
        /\ Reachable(drive, drive.tree_root) = Range(drive.path_map)
        /\ \A k \in DOMAIN drive.path_map :
              /\ path_exists(drive, k).found
              /\ path_exists(drive, k).node = drive.path_map[k]

\* C9: right after construct_tree, the computed path of every object of the
\* listing resolves, through path_exists, to the node with that object's id,
\* and the lookup table holds the same node under that path.
C9_IndexRoundTrip ==
    (pc = "ready" /\ last.op = "construct_tree") =>
        \A n \in 1..Len(remote) :
            /\ IdOf(n) \in DOMAIN drive.nodes
            /\ path_exists(drive, drive.nodes[IdOf(n)].path).found
            /\ path_exists(drive, drive.nodes[IdOf(n)].path).node = IdOf(n)
            /\ Get(drive.path_map, drive.nodes[IdOf(n)].path) = IdOf(n)

\* C10: a call mkdir(path, mkparents=False) made when a directory above path
\* does not resolve raises FileNotFoundError, sends no folder-creation
\* request and leaves the tree, the lookup table and the service as they were.
C10_MkdirWithoutParents ==
    [][ (last'.op = "mkdir" /\ ~last'.mkparents /\ AncestorMissing(drive, last'.path)) =>
            /\ last'.exc = "FileNotFoundError"
            /\ "create_folder" \notin Range(last'.log)
            /\ drive' = drive
            /\ remote' = remote ]_vars

C10_Witness ==
    /\ last.op = "mkdir"
    /\ ~last.mkparents
    /\ last.exc = "FileNotFoundError"
    /\ AncestorMissing(drive, last.path)
    /\ Len(remote) > 0

(***************************************************************************)
(* The program: python -m gsync [-r] [-c] [--dry-run] [--max-size SIZE]    *)
(* sourcedir destinationdir. Importing gsync builds the index, sync then   *)
(* walks the source; the walk is one step per source entry. A tree is a    *)
(* sequence of entries, each under the root (parent 0) or under an earlier *)
(* directory of the sequence.                                              *)
(***************************************************************************)
Kinds == {"local", "gd"}

RootDir(kind, name) == IF kind = "gd" THEN gd_root \o name \o <<SEP>> ELSE name \o <<SEP>>

Entry(name, parent, folder, data, mtime) ==
    [name |-> name, parent |-> parent, folder |-> folder, data |-> data, mtime |-> mtime]

RECURSIVE RelPath(_, _)
RelPath(tree, k) ==
    IF tree[k].parent = 0 THEN tree[k].name
    ELSE RelPath(tree, tree[k].parent) \o <<SEP>> \o tree[k].name

\* The tree as files and directories under root on the local disk.
OnDisk(root, tree) ==
    [path \in {normpath(root)} \cup {root \o RelPath(tree, k) : k \in 1..Len(tree)} |->
        IF path = normpath(root) THEN Dir(1)
        ELSE LET k == CHOOSE k \in 1..Len(tree) : root \o RelPath(tree, k) = path
             IN IF tree[k].folder THEN Dir(tree[k].mtime)
                ELSE File(tree[k].data, tree[k].mtime)]

\* The tree as objects of the service, listed after base earlier objects.
InRemote(base, name, tree) ==
    <<[name |-> name, parent |-> root_id, folder |-> TRUE, data |-> <<>>, modifiedTime |-> 1]>>
    \o [k \in 1..Len(tree) |->
           [name |-> tree[k].name, parent |-> IdOf(base + 1 + tree[k].parent),
            folder |-> tree[k].folder, data |-> tree[k].data,
            modifiedTime |-> tree[k].mtime]]

Placed(sk, st, dk, dt) ==
    /\ source = FileSystem(RootDir(sk, <<"s">>))
    /\ destination = FileSystem(RootDir(dk, <<"d">>))
    /\ disk = (IF sk = "local" THEN OnDisk(RootDir(sk, <<"s">>), st) ELSE EmptyMap)
              @@ (IF dk = "local" /\ dt.root THEN OnDisk(RootDir(dk, <<"d">>), dt.tree)
                  ELSE EmptyMap)
    /\ remote = (IF sk = "gd" THEN InRemote(0, <<"s">>, st) ELSE <<>>)
                \o (IF dk = "gd" /\ dt.root
                    THEN InRemote(IF sk = "gd" THEN Len(st) + 1 ELSE 0, <<"d">>, dt.tree)
                    ELSE <<>>)

Started ==
    /\ drive = GDrive
    /\ pc = "import"
    /\ last = NoCall
    /\ walk = None
    /\ report = <<>>
    /\ first = None
    /\ clock = Now
    /\ history = <<>>
    /\ tokenmanager = None
    /\ issued = <<>>

Times == 1..MaxTime

X(data, mtime) == Entry(<<"x">>, 0, FALSE, data, mtime)

Y(parent, mtime) == Entry(<<"y">>, parent, FALSE, <<1, 1>>, mtime)

A(mtime) == Entry(<<"a">>, 0, TRUE, <<>>, mtime)

\* One source entry x, with every combination of the options, of the two
\* backends and of what the destination holds at the mapped path; and a
\* source with a subdirectory next to x.
SourceTrees ==
    {<<X(data, mtime)>> : data \in {<<1>>, <<1, 1>>}, mtime \in Times}
    \cup {<<X(<<1>>, 1), A(1), Y(2, 1)>>}

DestinationTrees ==
    {[root |-> FALSE, tree |-> <<>>], [root |-> TRUE, tree |-> <<>>]}
    \cup {[root |-> TRUE, tree |-> <<X(data, mtime)>>] :
             data \in {<<1>>, <<2>>, <<1, 1>>}, mtime \in Times}

Options ==
    [recursive : BOOLEAN, checksum : BOOLEAN, dryrun : BOOLEAN,
     maxsize : {None, PyInt(0), PyInt(1)}]

Init ==
    /\ Started
    /\ tz \in 0..MaxZone
    /\ options \in Options
    /\ \E sk \in Kinds, dk \in Kinds, st \in SourceTrees, dt \in DestinationTrees :
           Placed(sk, st, dk, dt)

\* sync(sourcedir, destinationdir, options): the backends exist, the loop
\* is about to ask the generator for its first entry.
StartSync(order) ==
    /\ pc = "ready"
    /\ pc' = "walk"
    /\ walk' = Generator(source, order)
    /\ report' = <<>>
    /\ first' = [disk |-> disk, remote |-> remote, drive |-> drive]
    /\ UNCHANGED <<drive, remote, disk, tz, source, destination, options, last, clock, history,
            tokenmanager, issued>>

Ended(e) == [op |-> "sync", path |-> None, mkparents |-> FALSE, exc |-> e, log |-> <<>>]

\* One iteration of the loop: the generator yields srcfile and the body
\* runs; an exception the body raises leaves sync and ends the process.
\* faults are the kinds of request the service answers with an error status
\* during this iteration (none, in a run without service failures).
SyncEntryWith(faults) ==
    /\ pc = "walk"
    /\ \E r \in {files_next(World(clock), walk, options.recursive)} :
         /\ r.exc = "none"
         /\ walk' = r.g
         /\ \E o \in {sync_entry([World(clock) EXCEPT !.faults = faults], source, destination,
                                 options, r.val)} :
              /\ drive' = o.w.drive
              /\ remote' = o.w.remote
              /\ disk' = o.w.disk
              /\ report' = Append(report, [srcfile |-> r.val, msg |-> o.msg, exc |-> o.exc,
                                           calls |-> o.w.calls, args |-> o.w.args,
                                           log |-> o.w.log, faults |-> faults])
              /\ pc' = IF o.exc = "none" THEN "walk" ELSE "crashed"
              /\ last' = IF o.exc = "none" THEN last ELSE Ended(o.exc)
              /\ history' = IF o.exc = "none" THEN history
                            ELSE Append(history, [exc |-> o.exc, report |-> report'])
    /\ UNCHANGED <<tz, source, destination, options, first, clock, tokenmanager, issued>>

SyncEntry == SyncEntryWith({})

\* The generator has no more entries and the loop ends (the notice of a dry
\* run is printed), or the generator raises and the process ends.
SyncEnd ==
    /\ pc = "walk"
    /\ \E r \in {files_next(World(clock), walk, options.recursive)} :
         /\ r.exc # "none"
         /\ walk' = r.g
         /\ pc' = IF r.exc = "StopIteration" THEN "done" ELSE "crashed"
         /\ last' = Ended(IF r.exc = "StopIteration" THEN "none" ELSE r.exc)
         /\ history' = Append(history, [exc |-> last'.exc, report |-> report])
    /\ UNCHANGED <<drive, remote, disk, tz, source, destination, options, report, first, clock,
            tokenmanager, issued>>

\* The program is run again, later, with the same arguments: a new process,
\* whose import builds the index anew.
Restart ==
    /\ pc \in {"done", "crashed"}
    /\ Len(history) < MaxRuns
    /\ pc' = "import"
    /\ drive' = GDrive
    /\ clock' = clock + 1
    /\ walk' = None
    /\ UNCHANGED <<remote, disk, tz, source, destination, options, report, last, first, history,
            tokenmanager, issued>>

Next ==
    \/ Import
    \/ \E order \in {"listed", "reversed"} : StartSync(order)
    \/ SyncEntry
    \/ SyncEnd

Spec == Init /\ [][Next]_vars

\* Two or three source entries, some in a subdirectory, and two runs.
SourceTreesRuns ==
    {<<X(<<1>>, mtime), Y(0, 1)>> : mtime \in Times}
    \cup {<<X(<<1>>, mtime), A(1), Y(2, 1)>> : mtime \in Times}

DestinationTreesRuns ==
    {[root |-> FALSE, tree |-> <<>>], [root |-> TRUE, tree |-> <<>>],
     [root |-> TRUE, tree |-> <<X(<<1>>, 1)>>], [root |-> TRUE, tree |-> <<X(<<2>>, 2)>>]}

OptionsRuns ==
    [recursive : BOOLEAN, checksum : BOOLEAN, dryrun : {FALSE}, maxsize : {None, PyInt(1)}]

InitRuns ==
    /\ Started
    /\ tz \in 0..MaxZone
    /\ options \in OptionsRuns
    /\ \E sk \in Kinds, dk \in Kinds, st \in SourceTreesRuns, dt \in DestinationTreesRuns :
           Placed(sk, st, dk, dt)

NextRuns ==
    \/ Import
    \/ \E order \in {"listed", "reversed"} : StartSync(order)
    \/ SyncEntry
    \/ SyncEnd
    \/ Restart

SpecRuns == InitRuns /\ [][NextRuns]_vars

(***************************************************************************)
(* Properties of the sync engine. What a backend holds at a path is read   *)
(* off the disk and the service themselves, not through the index.         *)
(***************************************************************************)
IndexOf(id) == CHOOSE n \in 1..Len(Digits) : IdOf(n) = id

RECURSIVE RemotePath(_, _)
RemotePath(objs, n) ==
    (IF objs[n].parent = root_id THEN gd_root ELSE RemotePath(objs, IndexOf(objs[n].parent)))
    \o objs[n].name \o (IF objs[n].folder THEN <<SEP>> ELSE <<>>)

RemoteAt(objs, path) == {n \in 1..Len(objs) : RemotePath(objs, n) = path}

Absent == [exists |-> FALSE, dir |-> FALSE, size |-> 0, mtime |-> 0, data |-> <<>>]

\* The entry a backend holds at path: its size in bytes, its modified time
\* as the backend reports it (UTC), its content.
Stored(disk_, remote_, zone, fs, path) ==
    IF fs.kind = "local"
    THEN IF ~os_path_exists(disk_, path) THEN Absent
         ELSE [exists |-> TRUE, dir |-> disk_[normpath(path)].dir,
               size |-> os_stat(disk_, path).val.st_size,
               mtime |-> disk_[normpath(path)].mtime + zone,
               data |-> disk_[normpath(path)].data]
    ELSE IF RemoteAt(remote_, path) = {} THEN Absent
         ELSE [exists |-> TRUE,
               dir |-> remote_[CHOOSE n \in RemoteAt(remote_, path) : TRUE].folder,
               size |-> Len(remote_[CHOOSE n \in RemoteAt(remote_, path) : TRUE].data),
               mtime |-> remote_[CHOOSE n \in RemoteAt(remote_, path) : TRUE].modifiedTime,
               data |-> remote_[CHOOSE n \in RemoteAt(remote_, path) : TRUE].data]

\* The destination path of a source entry: the destination root followed by
\* the entry's path below the source root.
DestFile(srcfile) ==
    destination.root \o SubSeq(srcfile, Len(source.root) + 1, Len(srcfile))

Src(srcfile) == Stored(disk, remote, tz, source, srcfile)

Dst(srcfile) == Stored(disk, remote, tz, destination, DestFile(srcfile))

CopyDecisions == {"COPYING...", "UPDATING..."}

SkipDecisions ==
    {"TOO BIG...SKIPPING", "CHECKSUM MATCHED...SKIPPING", "DEST NEWER...SKIPPING",
     "UP-TO-DATE...SKIPPING"}

\* This step processed a source entry; Processed' is its record.
Processing == Len(report') = Len(report) + 1

Processed == report[Len(report)]

\* The entry got past the size gate: the engine went on to ask whether the
\* destination exists.
PassedSizeGate(e) == <<"destination", "exists">> \in Range(e.calls)

Mutations == {"create_folder", "upload_init", "upload_put", "update_metadata"}

\* C1: in a run with dryrun set, no step changes the disk, the service or
\* (once built) the index; the processing of an entry calls neither copy_to
\* nor touch on the destination and sends no creating or updating request;
\* and the decision it reports is the one the same entry gets, from the same
\* state, with dryrun unset.
C1_DryRunChangesNothing ==
    [][ options.dryrun =>
          /\ disk' = disk
          /\ remote' = remote
          /\ pc # "import" => drive' = drive
          /\ Processing =>
               /\ <<"destination", "copy_to">> \notin Range(Processed'.calls)
               /\ <<"destination", "touch">> \notin Range(Processed'.calls)
               /\ Range(Processed'.log) \cap Mutations = {}
               /\ Processed'.msg =
                    sync_entry(World(clock), source, destination,
                               [options EXCEPT !.dryrun = FALSE], Processed'.srcfile).msg ]_vars

C1_Witness ==
    /\ options.dryrun
    /\ pc = "done"
    /\ Len(report) = 1
    /\ report[1].msg \in CopyDecisions
    /\ destination.kind = "gd"
    /\ remote = first.remote
    /\ drive = first.drive

\* C2: with maxsize set, a source entry whose size is greater than maxsize
\* ends as skipped for being too big, and the only backend operation the
\* engine calls for it is the source's size.
C2_SizeGatePrecedence ==
    [][ (Processing /\ options.maxsize # None
           /\ Src(Processed'.srcfile).size > options.maxsize[2]) =>
          /\ Processed'.exc = "none"
          /\ Processed'.msg = "TOO BIG...SKIPPING"
          /\ Processed'.calls = << <<"source", "size">> >> ]_vars

\* C3: when a run without dryrun and without checksum has completed, the
\* next run, of the unchanged source to the same destination, completes
\* too and decides no copy: it skips every entry, and skips as up to date
\* every entry the first run copied.
C3_SecondRunCopiesNothing ==
    (Len(history) = 2 /\ history[1].exc = "none" /\ ~options.dryrun /\ ~options.checksum) =>
        /\ history[2].exc = "none"
        /\ \A i \in 1..Len(history[2].report) :
              /\ history[2].report[i].msg \in SkipDecisions
              /\ \A j \in 1..Len(history[1].report) :
                    (/\ history[1].report[j].srcfile = history[2].report[i].srcfile
                     /\ history[1].report[j].msg \in CopyDecisions)
                    => history[2].report[i].msg = "UP-TO-DATE...SKIPPING"

\* The entries a walk of the source yields: the files below the root when
\* recursive, what the root directly holds otherwise.
SourceEntries ==
    IF source.kind = "local"
    THEN {k \in DOMAIN disk :
            /\ startswith(k, source.root)
            /\ IF options.recursive THEN ~disk[k].dir ELSE dirname(k) = normpath(source.root)}
    ELSE {RemotePath(remote, n) : n \in {n \in 1..Len(remote) :
            /\ ~remote[n].folder
            /\ startswith(RemotePath(remote, n), source.root)
            /\ options.recursive \/ dirname(RemotePath(remote, n)) \o <<SEP>> = source.root}}

\* C4: a run in which the processing of an entry failed has still processed
\* every entry of the source.
C4_FailureIsolation ==
    \A k \in 1..Len(history) :
        (\E i \in 1..Len(history[k].report) : history[k].report[i].exc # "none") =>
            {history[k].report[i].srcfile : i \in 1..Len(history[k].report)} = SourceEntries

\* C5: without checksum, an entry that got past the size gate and whose
\* destination exists is copied when the source's modified time is the
\* later one, skipped as older when the destination's is, and at equal times
\* skipped as up to date when the two sizes are equal and copied otherwise.
C5_MetadataPolicy ==
    [][ (Processing /\ ~options.checksum /\ PassedSizeGate(Processed')
           /\ Dst(Processed'.srcfile).exists) =>
          Processed'.msg =
            IF Src(Processed'.srcfile).mtime > Dst(Processed'.srcfile).mtime
            THEN "UPDATING..."
            ELSE IF Src(Processed'.srcfile).mtime < Dst(Processed'.srcfile).mtime
            THEN "DEST NEWER...SKIPPING"
            ELSE IF Src(Processed'.srcfile).size = Dst(Processed'.srcfile).size
            THEN "UP-TO-DATE...SKIPPING"
            ELSE "UPDATING..." ]_vars

\* C6: with checksum, a file that got past the size gate and whose
\* destination exists is skipped when the two contents have the same hash
\* and copied otherwise, whatever the modified times and the sizes are; the
\* destination's modified time and size are not read.
C6_ChecksumPolicy ==
    [][ (Processing /\ options.checksum /\ PassedSizeGate(Processed')
           /\ ~Src(Processed'.srcfile).dir /\ Dst(Processed'.srcfile).exists) =>
          /\ Processed'.msg =
               IF md5(Src(Processed'.srcfile).data) = md5(Dst(Processed'.srcfile).data)
               THEN "CHECKSUM MATCHED...SKIPPING" ELSE "UPDATING..."
          /\ <<"destination", "last_modified_time">> \notin Range(Processed'.calls)
          /\ <<"destination", "size">> \notin Range(Processed'.calls) ]_vars

C6_Witness ==
    /\ options.checksum
    /\ pc = "done"
    /\ Len(report) = 1
    /\ report[1].msg = "CHECKSUM MATCHED...SKIPPING"
    /\ source.kind # destination.kind
    /\ Stored(first.disk, first.remote, tz, source, report[1].srcfile).mtime
         # Stored(first.disk, first.remote, tz, destination, DestFile(report[1].srcfile)).mtime

\* C7: an entry that got past the size gate and whose destination path
\* holds nothing is decided a copy, with checksum and without, and the
\* destination's modified time, size and hash are not read.
C7_ExistenceGate ==
    [][ (Processing /\ PassedSizeGate(Processed') /\ ~Dst(Processed'.srcfile).exists) =>
          /\ Processed'.msg = "COPYING..."
          /\ \A op \in {"last_modified_time", "size", "md5hash"} :
                <<"destination", op>> \notin Range(Processed'.calls) ]_vars

C7_Witness ==
    /\ options.checksum
    /\ pc = "done"
    /\ Len(report) = 1
    /\ report[1].msg = "COPYING..."
    /\ PassedSizeGate(report[1])
    /\ ~Stored(first.disk, first.remote, tz, destination, DestFile(report[1].srcfile)).exists

(***************************************************************************)
(* Properties of mkdir, upload and the walk of the index.                  *)
(***************************************************************************)
\* The directories above path that do not resolve.
Missing(d, path) == {a \in Ancestors(path) : ~path_exists(d, a).found}

\* The directories a successful mkdir(path, mkparents=True) has to create,
\* from the root to the leaf.
ToCreate(d, path) ==
    LET S == Missing(d, path) \cup {path}
    IN [j \in 1..Cardinality(S) |->
           CHOOSE p \in S : Cardinality({q \in S : Len(q) < Len(p)}) = j - 1]

\* C11: a call mkdir(path, mkparents=True) made when two or more directories
\* above path do not resolve succeeds; the service stores the new folders in
\* the order root to leaf, one folder-creation request each, every folder
\* after the first under the folder created just before it; and afterwards
\* each created directory resolves through path_exists and is a key of the
\* lookup table.
C11_MkdirWithParents ==
    [][ (last'.op = "mkdir" /\ last'.mkparents /\ drive.initialized
           /\ Cardinality(Missing(drive, last'.path)) >= 2) =>
          /\ last'.exc = "none"
          /\ last'.log = [j \in 1..Len(ToCreate(drive, last'.path)) |-> "create_folder"]
          /\ Len(remote') = Len(remote) + Len(ToCreate(drive, last'.path))
          /\ \A j \in 1..Len(ToCreate(drive, last'.path)) :
                /\ RemotePath(remote', Len(remote) + j) = ToCreate(drive, last'.path)[j]
                /\ j > 1 => remote'[Len(remote) + j].parent = IdOf(Len(remote) + j - 1)
                /\ path_exists(drive', ToCreate(drive, last'.path)[j]).found
                /\ ToCreate(drive, last'.path)[j] \in DOMAIN drive'.path_map ]_vars

(***************************************************************************)
(* The backends on their own: a caller holds one FileSystem and calls its  *)
(* operations, and those of the index behind it, one after the other.      *)
(* last records the operation called, its arguments, the exception it      *)
(* raised (or "none"), what it returned and the requests it sent.          *)
(***************************************************************************)
mkdir(w, fs, dirpath, mkparents) ==
    IF fs.kind = "gd" THEN GDFileSystem_mkdir(w, dirpath, mkparents)
    ELSE LocalFileSystem_mkdir(w, dirpath, mkparents)

\* list(drive.walk_tree(dirpath, recursive)): the generator run to its end.
RECURSIVE walk_tree(_, _, _, _)
walk_tree(w, g, recursive, yielded) ==
    IF walk_tree_next(w, g, recursive).exc = "none"
    THEN walk_tree(w, walk_tree_next(w, g, recursive).g, recursive,
                   Append(yielded, walk_tree_next(w, g, recursive).val))
    ELSE Result(IF walk_tree_next(w, g, recursive).exc = "StopIteration" THEN "none"
                ELSE walk_tree_next(w, g, recursive).exc,
                yielded)

Call(op, path, arg, e, val, log) ==
    [op |-> op, path |-> path, arg |-> arg, exc |-> e, val |-> val, log |-> log]

Base(kind) == IF kind = "gd" THEN gd_root ELSE <<"d", SEP>>

FsDirs(kind) ==
    {Base(kind), Base(kind) \o <<"a", SEP>>, Base(kind) \o <<"a", SEP, "b", SEP>>}

FsFiles(kind) == {Base(kind) \o <<"x">>, Base(kind) \o <<"a", SEP, "x">>}

\* Paths a caller may hand to path_exists: without a separator, empty, and
\* with another prefix than the index's.
OddPaths == {<<"x">>, <<>>, <<"f", "s", ":", SEP, "x">>}

Contents == {<<1>>, <<2, 1>>}

\* The attributes the backend looks up: gdfs.py last_modified_time, md5hash, size.
Props == {"modifiedTime", "md5Checksum", "size"}

ListingsFs ==
    {l \in Listings : Len(l) = 0 \/ (Len(l) = MaxListing /\ l[1].folder /\ ~l[Len(l)].folder)}

DisksFs ==
    {EmptyMap, OnDisk(Base("local"), <<>>), OnDisk(Base("local"), <<X(<<1>>, 1)>>),
     OnDisk(Base("local"), <<A(1), Entry(<<"x">>, 1, FALSE, <<1>>, 1)>>)}

InitFs ==
    /\ drive = GDrive
    /\ pc = "import"
    /\ last = NoCall
    /\ tz \in 0..MaxZone
    /\ source = None
    /\ options = None
    /\ walk = None
    /\ report = <<>>
    /\ clock = Now
    /\ history = <<>>
    /\ tokenmanager = None
    /\ issued = <<>>
    /\ \E kind \in Kinds :
          /\ destination = FileSystem(Base(kind))
          /\ remote \in (IF kind = "gd" THEN ListingsFs ELSE {<<>>})
          /\ disk \in (IF kind = "gd" THEN {EmptyMap} ELSE DisksFs)
    /\ first = [disk |-> disk, remote |-> remote, drive |-> drive]

CallFsMkdir(dirpath, mkparents) ==
    /\ pc = "ready"
    /\ Len(remote) + Len(split(dirpath)) - 2 <= MaxObjs
    /\ \E r \in {mkdir(World(clock), destination, dirpath, mkparents)} :
         /\ drive' = r.w.drive
         /\ remote' = r.w.remote
         /\ disk' = r.w.disk
         /\ last' = Call("mkdir", dirpath, mkparents, r.exc, None, r.w.log)
    /\ UNCHANGED <<tz, source, destination, options, pc, walk, report, first, clock, history,
            tokenmanager, issued>>

CallCopyTo(path, data) ==
    /\ pc = "ready"
    /\ Len(remote) + Len(split(path)) - 1 <= MaxObjs
    /\ \E r \in {copy_to(World(clock), destination, path, data)} :
         /\ drive' = r.w.drive
         /\ remote' = r.w.remote
         /\ disk' = r.w.disk
         /\ last' = Call("copy_to", path, data, r.exc, None, r.w.log)
    /\ UNCHANGED <<tz, source, destination, options, pc, walk, report, first, clock, history,
            tokenmanager, issued>>

CallTouch(path, mtime) ==
    /\ pc = "ready"
    /\ \E r \in {touch(World(clock), destination, path, mtime)} :
         /\ drive' = r.w.drive
         /\ remote' = r.w.remote
         /\ disk' = r.w.disk
         /\ last' = Call("touch", path, mtime, r.exc, None, r.w.log)
    /\ UNCHANGED <<tz, source, destination, options, pc, walk, report, first, clock, history,
            tokenmanager, issued>>

CallPathExists(gdpath) ==
    /\ pc = "ready"
    /\ destination.kind = "gd"
    /\ \E r \in {path_exists(drive, gdpath)} :
         last' = Call("path_exists", gdpath, None, r.exc, r, <<>>)
    /\ UNCHANGED <<drive, remote, disk, tz, source, destination, options, pc, walk, report,
                   first, clock, history, tokenmanager, issued>>

CallWalkTree(dirpath, recursive) ==
    /\ pc = "ready"
    /\ destination.kind = "gd"
    /\ \E r \in {walk_tree(World(clock), Generator(FileSystem(dirpath), "listed"), recursive,
                           <<>>)} :
         last' = Call("walk_tree", dirpath, recursive, r.exc, r.val, <<>>)
    /\ UNCHANGED <<drive, remote, disk, tz, source, destination, options, pc, walk, report,
                   first, clock, history, tokenmanager, issued>>

\* A property lookup on the index, as last_modified_time, md5hash and size
\* make it.
CallGetProp(path, prop) ==
    /\ pc = "ready"
    /\ destination.kind = "gd"
    /\ \E r \in {getprop(drive, path, prop)} :
         last' = Call("getprop", path, prop, r.exc, r.val, <<>>)
    /\ UNCHANGED <<drive, remote, disk, tz, source, destination, options, pc, walk, report,
                   first, clock, history, tokenmanager, issued>>

NextFs ==
    \/ Import
    \/ \E dirpath \in FsDirs(destination.kind), mkparents \in BOOLEAN :
          CallFsMkdir(dirpath, mkparents)
    \/ \E path \in FsFiles(destination.kind), data \in Contents : CallCopyTo(path, data)
    \/ \E path \in FsFiles(destination.kind), mtime \in {None} \cup {<<t>> : t \in Times} :
          CallTouch(path, mtime)
    \/ \E gdpath \in FsDirs("gd") \cup FsFiles("gd") \cup OddPaths : CallPathExists(gdpath)
    \/ \E dirpath \in FsDirs("gd"), recursive \in BOOLEAN : CallWalkTree(dirpath, recursive)

SpecFs == InitFs /\ [][NextFs]_vars

\* The backends' operations together with the property lookups.
NextProp ==
    \/ NextFs
    \/ \E path \in FsDirs("gd") \cup FsFiles("gd"), prop \in Props : CallGetProp(path, prop)

SpecProp == InitFs /\ [][NextProp]_vars

(***************************************************************************)
(* Properties of the backends' operations.                                 *)
(***************************************************************************)
\* What the destination backend holds at path, before and after the step.
Held(path) == Stored(disk, remote, tz, destination, path)

\* C12: a call mkdir(path), on either backend, made when a directory
\* already exists at path returns without error, sends no folder-creation
\* request, adds no node to the index and leaves the disk and the service
\* as they were.
C12_MkdirExistingIsNoOp ==
    [][ (last'.op = "mkdir" /\ pc = "ready" /\ Held(last'.path).exists /\ Held(last'.path).dir) =>
          /\ last'.exc = "none"
          /\ "create_folder" \notin Range(last'.log)
          /\ drive' = drive
          /\ remote' = remote
          /\ disk' = disk ]_vars

\* The world a call made after the step runs in.
After == [World(clock) EXCEPT !.drive = drive', !.remote = remote', !.disk = disk']

\* The objects at path that this process created.
CreatedAt(objs, path) == {n \in RemoteAt(objs, path) : n > Len(first.remote)}

\* C13: when copy_to on the remote backend has uploaded a new file to p,
\* exists(p) is true and path_exists(p), which reads the index only, finds
\* the uploaded object's record; and a copy_to(p) made after this process
\* uploaded a file to p does not upload a second object.
C13_UploadVisible ==
    [][ (last'.op = "copy_to" /\ pc = "ready" /\ destination.kind = "gd") =>
          /\ (last'.exc = "none" /\ "upload_put" \in Range(last'.log)) =>
                /\ GDFileSystem_exists(After, last'.path).val
                /\ path_exists(drive', last'.path).found
                /\ path_exists(drive', last'.path).node = IdOf(Len(remote'))
          /\ CreatedAt(remote, last'.path) # {} => "upload_put" \notin Range(last'.log) ]_vars

\* The attributes of an object the index is to hold as the service holds them.
Attributes(folder) ==
    {"id", "parents", "modifiedTime"} \cup (IF folder THEN {} ELSE {"size", "md5Checksum"})

\* C14: after any sequence of mkdir, copy_to and touch calls on the remote
\* backend, every object this process created is in the lookup table under
\* its path and resolves through the tree, with the id, parent, size,
\* modified time and hash the service holds for it; and every entry of the
\* lookup table is an object the service stores at that path.
C14_IndexMatchesBackend ==
    (pc = "ready" /\ destination.kind = "gd") =>
        /\ \A n \in (Len(first.remote) + 1)..Len(remote) :
              /\ path_exists(drive, RemotePath(remote, n)).found
              /\ \A prop \in Attributes(remote[n].folder) :
                    /\ getprop(drive, RemotePath(remote, n), prop).exc = "none"
                    /\ getprop(drive, RemotePath(remote, n), prop).val
                         = FileMetaData(remote, n)[prop]
        /\ \A k \in DOMAIN drive.path_map :
              drive.path_map[k] = root_id
              \/ \E n \in RemoteAt(remote, k) : IdOf(n) = drive.path_map[k]

\* C15: on either backend, after copy_to(p, data) has returned without
\* error, ropen(p) yields data, byte for byte and in order; and copy_to
\* returns without error when p already holds a file (the content is
\* overwritten) as it does when p holds nothing.
C15_CopyToRoundTrip ==
    [][ (last'.op = "copy_to" /\ pc = "ready") =>
          /\ last'.exc = "none" =>
                /\ ropen(After, destination, last'.path).exc = "none"
                /\ ropen(After, destination, last'.path).val = last'.arg
          /\ (Held(last'.path).exists /\ ~Held(last'.path).dir) => last'.exc = "none" ]_vars

(***************************************************************************)
(* Properties of the copy and of the dry run.                              *)
(***************************************************************************)
\* What a copy of srcfile is to give the destination: copy_to with the
\* source's bytes, then touch with the source's modified time.
CopySteps(srcfile) ==
    << [op |-> "copy_to", path |-> DestFile(srcfile), arg |-> Src(srcfile).data],
       [op |-> "touch", path |-> DestFile(srcfile), arg |-> <<Src(srcfile).mtime>>] >>

\* What the destination holds for srcfile after the step.
DstAfter(srcfile) == Stored(disk', remote', tz, destination, DestFile(srcfile))

\* C16: for an entry decided a copy in a run without dryrun, the engine
\* calls copy_to on the destination path with the source's bytes and only
\* after it has returned touch, on the same path with the source's modified
\* time; a copy that ends without error has called both; and once touch
\* has been called the destination holds the source's bytes, whether or not
\* touch has set the time.
C16_CopyThenTouch ==
    [][ (Processing /\ ~options.dryrun /\ Processed'.msg \in CopyDecisions) =>
          /\ Len(Processed'.args) <= 2
          /\ Processed'.args = SubSeq(CopySteps(Processed'.srcfile), 1, Len(Processed'.args))
          /\ SelectSeq(Processed'.calls,
                       LAMBDA c : c \in {<<"destination", "copy_to">>, <<"destination", "touch">>})
               = [i \in 1..Len(Processed'.args) |-> <<"destination", Processed'.args[i].op>>]
          /\ Processed'.exc = "none" => Len(Processed'.args) = 2
          /\ Len(Processed'.args) = 2 =>
                /\ DstAfter(Processed'.srcfile).exists
                /\ DstAfter(Processed'.srcfile).data = Src(Processed'.srcfile).data ]_vars

C16_Witness ==
    /\ ~options.dryrun
    /\ pc = "done"
    /\ Len(report) = 1
    /\ report[1].msg = "COPYING..."
    /\ report[1].exc = "none"
    /\ destination.kind = "gd"
    /\ "update_metadata" \in Range(report[1].log)
    /\ Dst(report[1].srcfile).data = Src(report[1].srcfile).data
    /\ Dst(report[1].srcfile).mtime # Src(report[1].srcfile).mtime

\* __sync(source, destination, options): the whole loop, from the state w,
\* with the generator g; msgs are the decisions printed, entry after entry
\* (None for an entry that printed none), and exc is the exception that
\* ended the loop, or "none".
RECURSIVE __sync(_, _, _, _, _, _)
__sync_entry(o, g, src, dst, opts, msgs) ==
    IF o.exc # "none" THEN [exc |-> o.exc, msgs |-> Append(msgs, o.msg)]
    ELSE __sync([o.w EXCEPT !.log = <<>>, !.calls = <<>>, !.args = <<>>], g, src, dst, opts,
                Append(msgs, o.msg))

__sync_next(w, r, src, dst, opts, msgs) ==
    IF r.exc = "StopIteration" THEN [exc |-> "none", msgs |-> msgs]
    ELSE IF r.exc # "none" THEN [exc |-> r.exc, msgs |-> msgs]
    ELSE __sync_entry(sync_entry(w, src, dst, opts, r.val), r.g, src, dst, opts, msgs)

__sync(w, g, src, dst, opts, msgs) ==
    __sync_next(w, files_next(w, g, opts.recursive), src, dst, opts, msgs)

\* The decisions of the run that has ended.
Decisions == [i \in 1..Len(report) |-> report[i].msg]

\* The decisions a run with dryrun set prints from the state the current
\* run began in, with the same other options and the same listing order.
DryRunDecisions ==
    __sync([World(clock) EXCEPT !.drive = first.drive, !.remote = first.remote,
                                !.disk = first.disk],
           Generator(source, walk.order), source, destination,
           [options EXCEPT !.dryrun = TRUE], <<>>).msgs

\* C17: a run without dryrun that has ended has printed, entry after entry,
\* the decisions the run with dryrun set prints from the same initial state
\* with the same recursive, checksum and maxsize options.
C17_DryRunReportsRealRun ==
    (pc \in {"done", "crashed"} /\ ~options.dryrun) => Decisions = DryRunDecisions

\* C18: path_exists, called on the built index with any path string (one
\* without a separator and one with another prefix included), raises
\* nothing and returns either found with the node or not found with the
\* last matched node and the part of the path that did not match.
C18_PathExistsNeverRaises ==
    last.op = "path_exists" =>
        /\ last.exc = "none"
        /\ IF last.val.found THEN last.val.node \in DOMAIN drive.nodes
           ELSE /\ last.val.last_matched_id \in DOMAIN drive.nodes
                /\ last.val.mismatch # None

\* The files the index holds under dirpath: those the tree reaches from the
\* node dirpath resolves to, and those the lookup table has under a key
\* below dirpath; all of them when recursive, the immediate children
\* otherwise.
FilesInTree(d, dirpath, recursive) ==
    IF ~path_exists(d, dirpath).found THEN {}
    ELSE IF recursive
    THEN {f \in Reachable(d, path_exists(d, dirpath).node) : ~d.nodes[f].folder}
    ELSE Range(d.nodes[path_exists(d, dirpath).node].files)

FilesInTable(d, dirpath, recursive) ==
    {d.path_map[k] : k \in {k \in DOMAIN d.path_map :
        /\ startswith(k, dirpath)
        /\ k[Len(k)] # SEP
        /\ recursive \/ dirname(k) \o <<SEP>> = dirpath}}

FilesUnder(d, dirpath, recursive) ==
    FilesInTree(d, dirpath, recursive) \cup FilesInTable(d, dirpath, recursive)

\* The path of a file of the index: the one construct_tree gave it, or the
\* key upload stored it under.
PathOf(d, f) ==
    IF "path" \in d.nodes[f].keys THEN d.nodes[f].path
    ELSE CHOOSE k \in DOMAIN d.path_map : d.path_map[k] = f

InIndex(d, dirpath) == path_exists(d, dirpath).found \/ dirpath \in DOMAIN d.path_map

Count(q, v) == Cardinality({i \in 1..Len(q) : q[i] = v})

\* C19: walk_tree(dirpath, recursive), for a directory the index holds,
\* ends without error and has yielded the path of every file the index
\* holds under dirpath (of every immediate child when not recursive) once
\* for each such file, and nothing else; for a directory the index does not
\* hold it raises FileNotFoundError.
C19_WalkVisitsEachFileOnce ==
    last.op = "walk_tree" =>
        IF InIndex(drive, last.path)
        THEN /\ last.exc = "none"
             /\ \A p \in Range(last.val)
                         \cup {PathOf(drive, f) : f \in FilesUnder(drive, last.path, last.arg)} :
                   Count(last.val, p)
                     = Cardinality({f \in FilesUnder(drive, last.path, last.arg) :
                                       PathOf(drive, f) = p})
        ELSE last.exc = "FileNotFoundError"

\* C20: on either backend, after touch(p, t) has returned without error on
\* an existing file p, last_modified_time(p) returns t, whatever the
\* host's timezone offset is.
C20_TimestampRoundTrip ==
    [][ (last'.op = "touch" /\ pc = "ready" /\ last'.arg # None /\ last'.exc = "none"
           /\ Held(last'.path).exists /\ ~Held(last'.path).dir) =>
          /\ last_modified_time(After, destination, last'.path).exc = "none"
          /\ last_modified_time(After, destination, last'.path).val = last'.arg[1] ]_vars

(***************************************************************************)
(* The report of path_exists for a path the index does not hold.           *)
(***************************************************************************)

\* The directories the tree reaches from node n, each with the path that
\* leads to it: the names of the folders from the root, each followed by "/".
RECURSIVE TreeDirs(_, _, _)
TreeDirs(d, n, p) ==
    {<<p, n>>} \cup UNION {TreeDirs(d, c, p \o d.nodes[c].name \o <<SEP>>) :
                             c \in Range(d.nodes[n].subfolders)}

Names(d, ids) == {d.nodes[ids[i]].name : i \in 1..Len(ids)}

NotFoundReport == last.op = "path_exists" /\ last.exc = "none" /\ ~last.val.found

\* C21: when path_exists(path) reports not found, the id and name it reports
\* are those of a directory of the tree whose path, followed by the reported
\* remainder, is the requested path, and the walk could not go further from
\* that directory: the first segment of the remainder names no subfolder of
\* it, or, when the remainder is the bare file name, no file of it.
C21_NotFoundReport ==
    NotFoundReport =>
      \E pn \in TreeDirs(drive, drive.tree_root, gd_root) :
        /\ drive.nodes[pn[2]].id = last.val.last_matched_id
        /\ drive.nodes[pn[2]].name = last.val.last_matched_name
        /\ pn[1] \o last.val.mismatch = last.path
        /\ IF Len(split(last.val.mismatch)) = 1
           THEN /\ last.val.mismatch # <<>>
                /\ last.val.mismatch \notin Names(drive, drive.nodes[pn[2]].files)
           ELSE split(last.val.mismatch)[1] \notin Names(drive, drive.nodes[pn[2]].subfolders)

C21_Witness ==
    /\ NotFoundReport
    /\ last.val.last_matched_id # root_id
    /\ Len(split(last.val.mismatch)) >= 2

(***************************************************************************)
(* The mapping of source paths to destination paths, on source trees in    *)
(* which the name of the source root, or of the destination root, occurs   *)
(* again below the source root.                                            *)
(***************************************************************************)

S(parent, mtime) == Entry(<<"s">>, parent, TRUE, <<>>, mtime)

D(parent, mtime) == Entry(<<"d">>, parent, TRUE, <<>>, mtime)

Under(parent, data) == Entry(<<"x">>, parent, FALSE, data, 1)

\* s/x and s/a/y;  s/s/x;  s/s/x and s/d/x.
MapTrees ==
    { <<X(<<1>>, 1), A(1), Y(2, 1)>>,
      <<S(0, 1), Under(1, <<1>>)>>,
      <<S(0, 1), Under(1, <<1>>), D(0, 1), Under(3, <<2>>)>> }

MapOptions == [recursive : BOOLEAN, checksum : BOOLEAN, dryrun : BOOLEAN, maxsize : {None}]

InitMap ==
    /\ Started
    /\ tz \in 0..MaxZone
    /\ options \in MapOptions
    /\ \E sk \in Kinds, dk \in Kinds, st \in MapTrees,
          dt \in {[root |-> FALSE, tree |-> <<>>], [root |-> TRUE, tree |-> <<>>]} :
           Placed(sk, st, dk, dt)

SpecMap == InitMap /\ [][Next]_vars

PathsGiven(e) == {e.args[i].path : i \in 1..Len(e.args)}

\* C22: the destination path the engine hands to copy_to and touch for a
\* source entry S+r is D+r, and no destination path is handed to them for
\* two different source entries of a run.
C22_PathMapping ==
    [][ Processing =>
          /\ PathsGiven(Processed') \subseteq {DestFile(Processed'.srcfile)}
          /\ \A i \in 1..Len(report) :
                report[i].srcfile # Processed'.srcfile =>
                   PathsGiven(report[i]) \cap PathsGiven(Processed') = {} ]_vars

(***************************************************************************)
(* Property lookups.                                                       *)
(***************************************************************************)

Looked == last'.op = "getprop" /\ destination.kind = "gd" /\ drive.initialized

\* C23: getprop(path, prop) leaves the index as it was; it raises
\* FileNotFoundError exactly when exists(path) is false; for a path that
\* exists it raises KeyError exactly when the node lacks the attribute and
\* otherwise returns the node's value of it.
C23_GetPropErrors ==
    [][ Looked =>
          /\ drive' = drive
          /\ (last'.exc = "FileNotFoundError") <=>
                ~GDFileSystem_exists(World(clock), last'.path).val
          /\ GDFileSystem_exists(World(clock), last'.path).val =>
                /\ (last'.exc = "KeyError") <=>
                      last'.arg \notin drive.nodes[path_exists(drive, last'.path).node].keys
                /\ last'.exc = "none" =>
                      last'.val = drive.nodes[path_exists(drive, last'.path).node][last'.arg] ]_vars

(***************************************************************************)
(* Runs to the remote backend during which the service answers some of the *)
(* creating requests with an error status.                                 *)
(***************************************************************************)

FaultKinds == {"create_folder", "upload_init", "upload_put"}

ListingFaults == {"files"}

InitFail ==
    /\ Started
    /\ tz = 0
    /\ options \in [recursive : {TRUE}, checksum : BOOLEAN, dryrun : {FALSE}, maxsize : {None}]
    /\ \E sk \in Kinds, st \in {<<X(<<1>>, 1)>>, <<X(<<1>>, 1), A(1), Y(2, 1)>>},
          dt \in {[root |-> FALSE, tree |-> <<>>], [root |-> TRUE, tree |-> <<>>],
                  [root |-> TRUE, tree |-> <<X(<<2>>, 1)>>]} :
           Placed(sk, st, "gd", dt)

NextFail ==
    \/ \E faults \in SUBSET ListingFaults : ImportWith(faults)
    \/ \E order \in {"listed", "reversed"} : StartSync(order)
    \/ \E faults \in SUBSET FaultKinds : SyncEntryWith(faults)
    \/ SyncEnd

SpecFail == InitFail /\ [][NextFail]_vars

\* The kinds of request the service answered with an error status while
\* the entry was processed.
Refused(e) == e.faults \cap Range(e.log)

\* C24: when the service has answered a folder creation or an upload with an
\* error status while an entry was copied, the processing of the entry ends
\* with an error and not as a copy, and the index afterwards holds no
\* placeholder for what was not created: no key of the lookup table and no
\* child of a folder is None, and every key the step added to the table is
\* the path of an object the service holds.
C24_WriteFailureSurfaced ==
    [][ (Processing /\ Refused(Processed') # {}) =>
          /\ Processed'.exc # "none"
          /\ \A k \in DOMAIN drive'.path_map :
                /\ drive'.path_map[k] # None
                /\ k \notin DOMAIN drive.path_map => RemoteAt(remote', k) # {}
          /\ \A n \in DOMAIN drive'.nodes : None \notin Range(drive'.nodes[n].subfolders) ]_vars

(***************************************************************************)
(* Whole runs, among them runs whose destination root lies under the       *)
(* source root. The loop of __sync takes its next step whenever it has     *)
(* one: a process that is not at its end goes on.                          *)
(***************************************************************************)

PassTrees ==
    { <<X(<<1>>, 1)>>,
      <<X(<<1>>, 1), A(1), Y(2, 1)>>,
      <<X(<<1>>, 1), D(0, 1)>>,
      <<X(<<1>>, 1), D(0, 1), Under(2, <<2>>)>>,
      <<A(1), Y(1, 1), D(0, 1)>> }

\* sync(sroot, droot, options) with tree under sroot and nothing else stored.
PlacedAt(kind, sroot, droot, tree) ==
    /\ source = FileSystem(sroot)
    /\ destination = FileSystem(droot)
    /\ disk = (IF kind = "local" THEN OnDisk(sroot, tree) ELSE EmptyMap)
    /\ remote = (IF kind = "gd" THEN InRemote(0, <<"s">>, tree) ELSE <<>>)

InitPass ==
    /\ Started
    /\ tz = 0
    /\ options \in [recursive : BOOLEAN, checksum : {FALSE}, dryrun : BOOLEAN, maxsize : {None}]
    /\ \E kind \in Kinds, tree \in PassTrees :
         \E droot \in {RootDir(kind, <<"d">>), RootDir(kind, <<"s">>) \o <<"d", SEP>>} :
            PlacedAt(kind, RootDir(kind, <<"s">>), droot, tree)

\* Where the process is: its place in the program and the number of
\* entries its loop has been through.
Position == <<pc, Len(report)>>

\* Any step of a process that has not come to its end. Import, StartSync,
\* SyncEntry and SyncEnd are such steps, and one of them is possible in
\* every state that is not an end (the generator yields, stops or raises).
\* The first disjunct names one step to another position, from which the
\* model checker sees that Running is enabled without running the loop body.
Running ==
    /\ pc \in {"import", "ready", "walk"}
    /\ \/ pc' = pc /\ report' = Append(report, None)
       \/ TRUE

SpecPass == InitPass /\ [][Next]_vars /\ WF_Position(Running)

\* The source entries a listing of the state the run started from holds.
EntriesAtStart ==
    IF source.kind = "local"
    THEN {k \in DOMAIN first.disk :
            /\ startswith(k, source.root)
            /\ IF options.recursive THEN ~first.disk[k].dir
               ELSE dirname(k) = normpath(source.root)}
    ELSE {RemotePath(first.remote, n) : n \in {n \in 1..Len(first.remote) :
            /\ ~first.remote[n].folder
            /\ startswith(RemotePath(first.remote, n), source.root)
            /\ options.recursive \/ dirname(RemotePath(first.remote, n)) \o <<SEP>> = source.root}}

Processings(srcfile) == Cardinality({i \in 1..Len(report) : report[i].srcfile = srcfile})

Finished == pc \in {"done", "crashed"}

\* C25: every run comes to its end; no entry the source held when the run
\* started is ever processed twice; and at the end of the run each of them
\* has been processed once.
C25_TerminatesSinglePass ==
    /\ <>Finished
    /\ [](pc \in {"walk", "done", "crashed"} =>
             \A e \in EntriesAtStart : Processings(e) <= 1)
    /\ [](Finished => \A e \in EntriesAtStart : Processings(e) = 1)

(***************************************************************************)
(* Folders created more than once.                                         *)
(***************************************************************************)

\* The folders this process has created on the service: the objects stored
\* after the ones the service held at the start.
CreatedFolders == {n \in (Len(first.remote) + 1)..Len(remote) : remote[n].folder}

\* C26: whatever copy_to and mkdir calls the remote backend has served, no
\* two folders this process created have the same name under the same
\* parent, on the service or among the subfolders of a folder of the index.
C26_NoDuplicateFolders ==
    destination.kind = "gd" =>
      /\ \A m, n \in CreatedFolders :
            (remote[m].parent = remote[n].parent /\ remote[m].name = remote[n].name) => m = n
      /\ \A f \in DOMAIN drive.nodes :
            \A i, j \in 1..Len(drive.nodes[f].subfolders) :
               (/\ IndexOf(drive.nodes[f].subfolders[i]) \in CreatedFolders
                /\ IndexOf(drive.nodes[f].subfolders[j]) \in CreatedFolders
                /\ drive.nodes[drive.nodes[f].subfolders[i]].name
                     = drive.nodes[drive.nodes[f].subfolders[j]].name) => i = j

(***************************************************************************)
(* The credential provider. Time is in seconds; a token is the number of   *)
(* its place among the tokens the authorization service has issued.        *)
(***************************************************************************)

\* timedelta(0, 120): the deadline is recorded this long before the expiry.
Margin == 120

\* The lifetimes (expires_in) the authorization service may give a token.
ExpiresIn == {60, 120, 180, 300}

\* What the service answers to a refresh: an error status (None) or 200
\* with a new token of some lifetime.
Answers == {None} \cup {<<e>> : e \in ExpiresIn}

Delays == {60, 120}

Auth == [tokenmanager |-> tokenmanager, issued |-> issued, log |-> <<>>]

TokenManager_refresh(a, now, answer) ==
    IF answer = None
    THEN [a |-> [a EXCEPT !.log = Append(@, "refresh")], exc |-> "TokenNotRefreshed",
          val |-> None]
    ELSE [a |-> [a EXCEPT
                   !.log = Append(@, "refresh"),
                   !.issued = Append(@, [at |-> now, expires_in |-> answer[1]]),
                   !.tokenmanager = [valid_till |-> now + answer[1] - Margin,
                                     access_token_cached |-> Len(a.issued) + 1]],
          exc |-> "none", val |-> None]

get_access_token_refreshed(r) ==
    IF r.exc # "none" THEN r
    ELSE [a |-> r.a, exc |-> "none", val |-> <<r.a.tokenmanager.access_token_cached>>]

get_access_token_cached(a, now, answer) ==
    [a |-> a, exc |-> "none", val |-> <<a.tokenmanager.access_token_cached>>]

get_access_token(a, now, answer) ==
    IF now >= a.tokenmanager.valid_till
    THEN get_access_token_refreshed(TokenManager_refresh(a, now, answer))
    ELSE [a |-> a, exc |-> "none", val |-> <<a.tokenmanager.access_token_cached>>]

\* GDrive.request: no caller passes headers, so the headers of the request
\* are {"Authorization": "Bearer " + get_access_token()}.
GDrive_request(a, now, answer) == get_access_token(a, now, answer)

\* open_read_only: session.headers["Authorization"] = "Bearer " + get_access_token()
open_read_only_session(a, now, answer) == get_access_token(a, now, answer)

\* The state after gsync.gdrive has made its TokenManager: __init__ has
\* refreshed once.
InitToken ==
    /\ drive = GDrive
    /\ remote = <<>>
    /\ disk = EmptyMap
    /\ tz = 0
    /\ source = None
    /\ destination = None
    /\ options = None
    /\ pc = "ready"
    /\ walk = None
    /\ report = <<>>
    /\ last = NoCall
    /\ first = None
    /\ clock = 0
    /\ history = <<>>
    /\ \E e \in ExpiresIn :
         /\ tokenmanager = [valid_till |-> e - Margin, access_token_cached |-> 1]
         /\ issued = <<[at |-> 0, expires_in |-> e]>>

Elapse(d) ==
    /\ clock + d <= 60 * MaxElapsed
    /\ clock' = clock + d
    /\ UNCHANGED <<drive, remote, disk, tz, source, destination, options, pc, walk, report,
                   last, first, history, tokenmanager, issued>>

Asked(op, r) ==
    /\ tokenmanager' = r.a.tokenmanager
    /\ issued' = r.a.issued
    /\ last' = Call(op, None, None, r.exc, r.val, r.a.log)
    /\ UNCHANGED <<drive, remote, disk, tz, source, destination, options, pc, walk, report,
                   first, clock, history>>

Serves(answer) == Len(issued) < MaxTokens \/ clock < tokenmanager.valid_till

CallGetAccessToken(answer) ==
    /\ Serves(answer)
    /\ \E r \in {get_access_token(Auth, clock, answer)} : Asked("get_access_token", r)

CallRequest(answer) ==
    /\ Serves(answer)
    /\ \E r \in {GDrive_request(Auth, clock, answer)} : Asked("request", r)

CallOpenReadOnly(answer) ==
    /\ Serves(answer)
    /\ \E r \in {open_read_only_session(Auth, clock, answer)} : Asked("open_read_only", r)

NextToken ==
    \/ \E d \in Delays : Elapse(d)
    \/ \E answer \in Answers : CallGetAccessToken(answer)
    \/ \E answer \in Answers : CallRequest(answer)
    \/ \E answer \in Answers : CallOpenReadOnly(answer)

SpecToken == InitToken /\ [][NextToken]_vars

\* This step handed out a token: get_access_token returned it, or a request
\* or a download session was given it as its Authorization header.
Handed ==
    /\ clock' = clock
    /\ last'.op \in {"get_access_token", "request", "open_read_only"}
    /\ last'.exc = "none"

Token == last'.val[1]

\* The claim as stated: every token is handed out strictly before the
\* deadline recorded at its last refresh, and is the getter's token.
C27_TokenBeforeDeadline ==
    [][ Handed =>
          /\ clock < tokenmanager'.valid_till
          /\ Token = tokenmanager'.access_token_cached ]_vars

\* C27: a token is never handed out at or after the recorded deadline
\* without a refresh first: when the clock has reached the deadline the
\* token handed out is one the service issues in this very call. Every
\* token is handed out before its expiry, and strictly before the deadline
\* recorded at its refresh when its lifetime exceeds the margin. Every
\* request and download session carries the token the getter holds.
C27_TokenFresh ==
    [][ Handed =>
          /\ clock >= tokenmanager.valid_till =>
                /\ Len(issued') = Len(issued) + 1
                /\ Token = Len(issued')
          /\ Token \in 1..Len(issued')
          /\ clock < issued'[Token].at + issued'[Token].expires_in
          /\ issued'[Token].expires_in > Margin => clock < tokenmanager'.valid_till
          /\ Token = tokenmanager'.access_token_cached ]_vars

C27_Witness ==
    /\ last.op = "request"
    /\ last.exc = "none"
    /\ last.log = <<"refresh">>
    /\ Len(issued) >= 2
    /\ clock >= tokenmanager.valid_till

(***************************************************************************)
(* A failed listing at import.                                             *)
(***************************************************************************)

\* What the destination held at srcfile's mapped path when the run began.
DstAtStart(srcfile) == Stored(first.disk, first.remote, tz, destination, DestFile(srcfile))

\* C28: the import leaves the index either not initialized, and then the
\* run does not start, or holding every object of the account at its
\* path; and the engine decides COPYING... (its decision for a missing
\* destination) only for entries whose destination was not there when the
\* run began.
C28_FailedListingFailsImport ==
    [][ /\ pc = "import" =>
            /\ pc' = "ready" => drive'.initialized
            /\ drive'.initialized =>
                  \A n \in 1..Len(remote) : RemotePath(remote, n) \in DOMAIN drive'.path_map
        /\ (Processing /\ Processed'.msg = "COPYING...") =>
              ~DstAtStart(Processed'.srcfile).exists ]_vars

\* C29: the size gate applies for maxsize = 0 too: in a run with maxsize 0,
\* every source entry that holds more than 0 bytes ends as skipped for
\* being too big, and the engine never calls the destination's copy_to
\* for it.
C29_SizeGateZero ==
    [][ (Processing /\ options.maxsize = PyInt(0)
           /\ Src(Processed'.srcfile).size > 0) =>
          /\ Processed'.msg = "TOO BIG...SKIPPING"
          /\ \A i \in 1..Len(Processed'.calls) :
                Processed'.calls[i] # <<"destination", "copy_to">> ]_vars

====
